---- MODULE Spec2Model ----
(***************************************************************************)
(* Model of the trial-generation engine and the bundle pipeline of         *)
(* marmoset-dataset-preparation (src/src/domain).                          *)
(*                                                                         *)
(* Strings are sequences of one-character strings, so that trim, split,    *)
(* startsWith, lastIndexOf and concatenation are computed as the code      *)
(* computes them.  A JavaScript exception is a result whose status is not  *)
(* "ok" and which names the throw site.                                    *)
(***************************************************************************)
EXTENDS Integers, Sequences, FiniteSets, TLC

VARIABLES
    path,          \* argument of assertSafeInternalPath
    pathResult,    \* its outcome: "pending", "ok" or the name of the throw
    seedArgs,      \* [policy, subjectId] handed to deriveSubjectSeed
    seedResult,    \* its outcome
    countsArgs,    \* [total, ff, pf, available] handed to computeCounts
    countsResult,  \* its outcome
    genArgs,       \* [manifest, subjectId, config] handed to generateTrials
    clock,         \* the wall clock new Date() reads
    genRuns,       \* what the calls of generateTrials on genArgs returned, in order
    buildArgs,     \* the arguments handed to buildBundleInMemory
    built,         \* its outcome
    selection,     \* the files of the folder the bundle was laid out in
    parseResult,   \* the outcome of parseBundleFromDirectorySelection on them
    multiArgs,     \* what generateMultiSubjectTrials is called with
    multiResult,   \* its outcome
    rngSeed,       \* the seed string two generators are made from
    rngGens,       \* the two generators: the variable t of each and what its next() returned
    manifestSource,\* where a DatasetManifest comes from: a folder with its csv rows, or a prepared JSON or CSV file
    manifestResult,\* the manifest the program made of it
    poolArgs,      \* [manifest, subjectId] handed to buildPools
    poolResult,    \* its outcome
    pairMgr,       \* the fields of one ExemplarPairManager
    pairLog,       \* what its calls returned, in order, each with the used set it met
    tab,           \* the state of BundleTab, one field per useState of the build wizard
    pendingParses, \* the calls of onDatasetFolderChange suspended at await parseDataInfoCsv
    generatedWith, \* the arguments of the generateMultiSubjectTrials call that made tab.trialSets
    downloaded,    \* the bundle the last step handed to downloadBundleZip
    edits          \* tuning edits made so far

vars == <<path, pathResult, seedArgs, seedResult, countsArgs, countsResult,
          genArgs, clock, genRuns, buildArgs, built, selection, parseResult,
          multiArgs, multiResult,
          rngSeed, rngGens,
          manifestSource, manifestResult,
          poolArgs, poolResult,
          pairMgr, pairLog,
          tab, pendingParses, generatedWith, downloaded, edits>>

\* ------------------------------------------------------------------ bounds

\* tuning edits made in one run of the build wizard
MaxEdits == 1

\* calls of onDatasetFolderChange suspended at a time
MaxPending == 1

\* longest path handed to assertSafeInternalPath
MaxPathLen == 4

\* most calls of next() on one generator
MaxCalls == 3

\* most media files of a folder, exemplars of a prepared entry and parts of
\* a prepared path list
MaxFiles == 3
\* longest seed string of a seed policy
MaxSeedLen == 2
\* largest totalTrials handed to computeCounts
MaxTotal == 10
\* fractions are k / FracDen, k in 0..FracDen
FracDen == 4
\* largest availability of a category
MaxAvail == 2
\* most exemplars of one modality an identity of a generated manifest has
MaxExemplars == 2
\* largest totalTrials handed to generateTrials
MaxTrials == 4
\* latest reading of the wall clock
MaxClock == 1
\* most exemplars of one modality handed to an ExemplarPairManager on its own
MaxOrder == 3

\* ----------------------------------------------------------------- strings

Range(s) == {s[i] : i \in 1..Len(s)}

\* all sequences over S of length at most n
RECURSIVE SeqsUpTo(_, _)
SeqsUpTo(S, n) ==
    IF n = 0 THEN {<<>>}
    ELSE LET shorter == SeqsUpTo(S, n - 1)
         IN  shorter \cup {Append(s, c) : s \in {t \in shorter : Len(t) = n - 1}, c \in S}

StartsWith(s, prefix) ==
    /\ Len(prefix) <= Len(s)
    /\ SubSeq(s, 1, Len(prefix)) = prefix

\* String.prototype.split('/'): the segments between separators, empty ones kept
RECURSIVE SplitFrom(_, _, _, _)
SplitFrom(s, sep, i, cur) ==
    IF i > Len(s) THEN <<cur>>
    ELSE IF s[i] = sep THEN <<cur>> \o SplitFrom(s, sep, i + 1, <<>>)
    ELSE SplitFrom(s, sep, i + 1, Append(cur, s[i]))

Split(s, sep) == SplitFrom(s, sep, 1, <<>>)

\* String.prototype.trim over the whitespace of the model's alphabet
WhiteSpace == {" "}

RECURSIVE TrimStart(_)
TrimStart(s) ==
    IF s # <<>> /\ Head(s) \in WhiteSpace THEN TrimStart(Tail(s)) ELSE s

RECURSIVE TrimEnd(_)
TrimEnd(s) ==
    IF s # <<>> /\ s[Len(s)] \in WhiteSpace THEN TrimEnd(SubSeq(s, 1, Len(s) - 1)) ELSE s

Trim(s) == TrimEnd(TrimStart(s))

\* the decimal digit of a small positive number
DigitChar(k) == CASE k = 1 -> "1" [] k = 2 -> "2" [] k = 3 -> "3" [] OTHER -> "4"

\* ------------------------------------------------------------- path safety

\* the first throw of the loop over path.split('/'), or "ok"
RECURSIVE CheckParts(_, _)
CheckParts(parts, i) ==
    IF i > Len(parts) THEN "ok"
    ELSE IF Len(parts[i]) = 0 THEN "invalid_segment"
    ELSE IF parts[i] = <<".">> \/ parts[i] = <<".", ".">> THEN "traversal"
    ELSE CheckParts(parts, i + 1)

\* a mutant of assertSafeInternalPath: the '..' test is dropped
AssertSafeNoDotDot(p) ==
    IF p = <<>> THEN "empty"
    ELSE IF p[1] = "/" \/ p[1] = "\\" THEN "absolute"
    ELSE IF "\\" \in Range(p) THEN "backslash"
    ELSE LET parts == Split(p, "/")
         IN  IF \E i \in 1..Len(parts) : Len(parts[i]) = 0 THEN "invalid_segment"
             ELSE IF \E i \in 1..Len(parts) : parts[i] = <<".">> THEN "traversal"
             ELSE "ok"

assertSafeInternalPath(p) ==
    IF p = <<>> THEN "empty"
    ELSE IF p[1] = "/" \/ p[1] = "\\" THEN "absolute"
    ELSE IF "\\" \in Range(p) THEN "backslash"
    ELSE CHOOSE r \in {CheckParts(parts, 1) : parts \in {Split(p, "/")}} : TRUE

\* ------------------------------------------------------------- seed policy

Ok(v) == [status |-> "ok", value |-> v, error |-> "", names |-> <<>>]
Err(kind, who) == [status |-> "error", value |-> <<>>, error |-> kind, names |-> who]
Pending == [status |-> "pending", value |-> <<>>, error |-> "", names |-> <<>>]

\* obj[key] of a plain object is undefined for an absent key; !x holds of
\* undefined and of the empty string
Falsy(map, key) == key \notin DOMAIN map \/ map[key] = <<>>

\* a mutant of deriveSubjectSeed: a missing per-subject seed falls back to the
\* subject id, and an override is returned as typed
deriveSubjectSeedLenient(seedPolicy, subjectId) ==
    IF seedPolicy.strategy = "per_subject"
    THEN IF Falsy(seedPolicy.perSubjectSeeds, subjectId)
         THEN Ok(subjectId)
         ELSE Ok(seedPolicy.perSubjectSeeds[subjectId])
    ELSE IF /\ ~Falsy(seedPolicy.perSubjectOverrides, subjectId)
            /\ Len(Trim(seedPolicy.perSubjectOverrides[subjectId])) > 0
         THEN Ok(seedPolicy.perSubjectOverrides[subjectId])
         ELSE IF seedPolicy.globalSeed = <<>> \/ Len(Trim(seedPolicy.globalSeed)) = 0
              THEN Err("global_seed_required", <<>>)
              ELSE Ok(seedPolicy.globalSeed \o <<":", ":">> \o subjectId)

deriveSubjectSeed(seedPolicy, subjectId) ==
    IF seedPolicy.strategy = "per_subject"
    THEN IF Falsy(seedPolicy.perSubjectSeeds, subjectId)
         THEN Err("missing_per_subject_seed", subjectId)
         ELSE Ok(seedPolicy.perSubjectSeeds[subjectId])
    ELSE IF /\ ~Falsy(seedPolicy.perSubjectOverrides, subjectId)
            /\ Len(Trim(seedPolicy.perSubjectOverrides[subjectId])) > 0
         THEN Ok(Trim(seedPolicy.perSubjectOverrides[subjectId]))
         ELSE IF seedPolicy.globalSeed = <<>> \/ Len(Trim(seedPolicy.globalSeed)) = 0
              THEN Err("global_seed_required", <<>>)
              ELSE Ok(seedPolicy.globalSeed \o <<":", ":">> \o subjectId)

buildSeedPolicyGlobal(globalSeed, overrides) ==
    [strategy |-> "global", globalSeed |-> globalSeed, perSubjectOverrides |-> overrides]

buildSeedPolicyPerSubject(perSubjectSeeds) ==
    [strategy |-> "per_subject", perSubjectSeeds |-> perSubjectSeeds]

\* ------------------------------------------------- category count allocator

\* Math.round(num / den) for num >= 0, den > 0: halves round up
Round(num, den) == (2 * num + den) \div (2 * den)

\* a mutant of computeCounts: the familiar-non-partner count is dropped, not
\* folded into the partner count
computeCountsNoFold(total, ff, pf, available) ==
    LET nFamiliar == Round(total * ff, FracDen)
        nUnfamiliar0 == total - nFamiliar
        nPartner0 == Round(nFamiliar * pf, FracDen)
        nFnp0 == nFamiliar - nPartner0
        noP == available.partner <= 0
        noF == available.familiarNonPartner <= 0
        noU == available.unfamiliar <= 0
        \* if (available.partner <= 0)
        nFnp1 == IF noP THEN nFnp0 + nPartner0 ELSE nFnp0
        nPartner1 == IF noP THEN 0 ELSE nPartner0
        \* if (available.familiarNonPartner <= 0)
        nPartner2 == nPartner1
        nFnp2 == IF noF THEN 0 ELSE nFnp1
        \* if (available.unfamiliar <= 0)
        nFnp3 == IF noU THEN nFnp2 + nUnfamiliar0 ELSE nFnp2
        nUnfamiliar1 == IF noU THEN 0 ELSE nUnfamiliar0
    IN  [nPartner |-> IF nPartner2 > 0 /\ noP THEN 0 ELSE nPartner2,
         nFamiliarNonPartner |-> IF nFnp3 > 0 /\ noF THEN 0 ELSE nFnp3,
         nUnfamiliar |-> IF nUnfamiliar1 > 0 /\ noU THEN 0 ELSE nUnfamiliar1,
         warnings |-> (IF noP THEN <<"no_partner">> ELSE <<>>)
                      \o (IF noF THEN <<"no_familiar_non_partner">> ELSE <<>>)
                      \o (IF noU THEN <<"no_unfamiliar">> ELSE <<>>)]

\* a mutant of computeCounts: without the final forcing to zero
computeCountsUnclamped(total, ff, pf, available) ==
    LET nFamiliar == Round(total * ff, FracDen)
        nUnfamiliar0 == total - nFamiliar
        nPartner0 == Round(nFamiliar * pf, FracDen)
        nFnp0 == nFamiliar - nPartner0
        noP == available.partner <= 0
        noF == available.familiarNonPartner <= 0
        noU == available.unfamiliar <= 0
        \* if (available.partner <= 0)
        nFnp1 == IF noP THEN nFnp0 + nPartner0 ELSE nFnp0
        nPartner1 == IF noP THEN 0 ELSE nPartner0
        \* if (available.familiarNonPartner <= 0)
        nPartner2 == IF noF THEN nPartner1 + nFnp1 ELSE nPartner1
        nFnp2 == IF noF THEN 0 ELSE nFnp1
        \* if (available.unfamiliar <= 0)
        nFnp3 == IF noU THEN nFnp2 + nUnfamiliar0 ELSE nFnp2
        nUnfamiliar1 == IF noU THEN 0 ELSE nUnfamiliar0
    IN  [nPartner |-> nPartner2,
         nFamiliarNonPartner |-> nFnp3,
         nUnfamiliar |-> nUnfamiliar1,
         warnings |-> (IF noP THEN <<"no_partner">> ELSE <<>>)
                      \o (IF noF THEN <<"no_familiar_non_partner">> ELSE <<>>)
                      \o (IF noU THEN <<"no_unfamiliar">> ELSE <<>>)]

\* ff and pf are the numerators of the fractions ff / FracDen and pf / FracDen
computeCounts(total, ff, pf, available) ==
    LET nFamiliar == Round(total * ff, FracDen)
        nUnfamiliar0 == total - nFamiliar
        nPartner0 == Round(nFamiliar * pf, FracDen)
        nFnp0 == nFamiliar - nPartner0
        noP == available.partner <= 0
        noF == available.familiarNonPartner <= 0
        noU == available.unfamiliar <= 0
        \* if (available.partner <= 0)
        nFnp1 == IF noP THEN nFnp0 + nPartner0 ELSE nFnp0
        nPartner1 == IF noP THEN 0 ELSE nPartner0
        \* if (available.familiarNonPartner <= 0)
        nPartner2 == IF noF THEN nPartner1 + nFnp1 ELSE nPartner1
        nFnp2 == IF noF THEN 0 ELSE nFnp1
        \* if (available.unfamiliar <= 0)
        nFnp3 == IF noU THEN nFnp2 + nUnfamiliar0 ELSE nFnp2
        nUnfamiliar1 == IF noU THEN 0 ELSE nUnfamiliar0
    IN  [nPartner |-> IF nPartner2 > 0 /\ noP THEN 0 ELSE nPartner2,
         nFamiliarNonPartner |-> IF nFnp3 > 0 /\ noF THEN 0 ELSE nFnp3,
         nUnfamiliar |-> IF nUnfamiliar1 > 0 /\ noU THEN 0 ELSE nUnfamiliar1,
         warnings |-> (IF noP THEN <<"no_partner">> ELSE <<>>)
                      \o (IF noF THEN <<"no_familiar_non_partner">> ELSE <<>>)
                      \o (IF noU THEN <<"no_unfamiliar">> ELSE <<>>)]

\* ---------------------------------------------------------------- seeded PRNG

\* Bind([x \in {v} |-> e]) is e with x standing for the value of v, which is
\* computed once: the sequencing of statements, const x = v; ... e
Bind(f) == f[CHOOSE x \in DOMAIN f : TRUE]

RECURSIVE Pow2(_)
Pow2(n) == IF n = 0 THEN 1 ELSE 2 * Pow2(n - 1)

\* A 32-bit word is <<hi, lo>>, two 16-bit halves: hi * 2^16 + lo.
Half == Pow2(16)
Byte == Pow2(8)

RECURSIVE Xor16(_, _)
Xor16(a, b) ==
    IF a = 0 THEN b
    ELSE IF b = 0 THEN a
    ELSE ((a + b) % 2) + 2 * Xor16(a \div 2, b \div 2)

RECURSIVE Or16(_, _)
Or16(a, b) ==
    IF a = 0 THEN b
    ELSE IF b = 0 THEN a
    ELSE (IF a % 2 = 1 \/ b % 2 = 1 THEN 1 ELSE 0) + 2 * Or16(a \div 2, b \div 2)

\* a ^ b
Xor32(a, b) == <<Xor16(a[1], b[1]), Xor16(a[2], b[2])>>

\* a | b
Or32(a, b) == <<Or16(a[1], b[1]), Or16(a[2], b[2])>>

\* a >>> n, for 0 < n < 16
Shr32(a, n) ==
    <<a[1] \div Pow2(n), (a[2] \div Pow2(n)) + (a[1] % Pow2(n)) * Pow2(16 - n)>>

\* (a + b) mod 2^32
Add32(a, b) ==
    Bind([lo \in {a[2] + b[2]} |->
        <<(a[1] + b[1] + (lo \div Half)) % Half, lo % Half>>])

\* (a * b) mod 2^16 of two 16-bit halves, by bytes
MulLow16(a, b) ==
    ((a * (b % Byte)) + ((a * (b \div Byte)) % Byte) * Byte) % Half

\* Math.imul(a, b): the low 32 bits of the product
Imul32(a, b) ==
    Bind([x \in {a[2] * (b[2] \div Byte)} |->       \* weighs 2^8
    Bind([y \in {a[2] * (b[2] % Byte)} |->
    Bind([lo \in {(x % Byte) * Byte + (y % Half)} |->
        <<((x \div Byte) + (y \div Half) + (lo \div Half)
              + MulLow16(a[1], b[2]) + MulLow16(a[2], b[1])) % Half,
          lo % Half>>])])])

\* charCodeAt for the characters of the model's strings
CharCodes ==
    << <<" ", 32>>, <<".", 46>>, <<"/", 47>>, <<"1", 49>>, <<"2", 50>>, <<"3", 51>>,
       <<"4", 52>>, <<":", 58>>, <<"A", 65>>, <<"B", 66>>, <<"C", 67>>, <<"D", 68>>,
       <<"E", 69>>, <<"s", 115>>, <<"t", 116>>, <<"x", 120>> >>

CharCode(c) == CharCodes[CHOOSE i \in 1..Len(CharCodes) : CharCodes[i][1] = c][2]

FnvOffset == <<33052, 40389>>      \* 2166136261 = 0x811C9DC5
FnvPrime == <<256, 403>>           \* 16777619 = 0x01000193
Increment == <<27947, 31221>>      \* 0x6D2B79F5

\* hashStringToInt: FNV-1a over the UTF-16 code units
RECURSIVE HashFrom(_, _, _)
HashFrom(s, i, h) ==
    IF i > Len(s) THEN h
    ELSE Bind([x \in {Xor32(h, <<0, CharCode(s[i])>>)} |->
         Bind([h1 \in {Imul32(x, FnvPrime)} |->
             HashFrom(s, i + 1, h1)])])

hashStringToInt(s) == HashFrom(s, 1, FnvOffset)

\* The generator's variable t is a JavaScript number: t += 0x6d2b79f5 is not
\* reduced modulo 2^32, only the bitwise operators read its low 32 bits.  t is
\* <<ext, hi, lo>> with value ext * 2^32 + hi * 2^16 + lo.
mulberry32(seed) == <<0, seed[1], seed[2]>>

createRng(seedStr) == Bind([seed \in {hashStringToInt(seedStr)} |-> mulberry32(seed)])

RngAdvance(t) ==
    Bind([lo \in {t[3] + Increment[2]} |->
    Bind([hi \in {t[2] + Increment[1] + (lo \div Half)} |->
        <<t[1] + (hi \div Half), hi % Half, lo % Half>>])])

\* a mutant of RngOutput: without the final >>> 0 the integer is signed
RngOutputSigned(t) ==
    Bind([w \in {<<t[2], t[3]>>} |->
    Bind([a1 \in {Xor32(w, Shr32(w, 15))} |->
    Bind([b1 \in {Or32(<<0, 1>>, w)} |->
    Bind([r1 \in {Imul32(a1, b1)} |->
    Bind([a2 \in {Xor32(r1, Shr32(r1, 7))} |->
    Bind([b2 \in {Or32(<<0, 61>>, r1)} |->
    Bind([m \in {Imul32(a2, b2)} |->
    Bind([sum \in {Add32(r1, m)} |->
    Bind([r2 \in {Xor32(r1, sum)} |->
    Bind([r3 \in {Xor32(r2, Shr32(r2, 14))} |->
        IF r3[1] >= Pow2(15) THEN <<r3[1] - Half, r3[2]>> ELSE r3])])])])])])])])])])

\* the 32-bit integer that next() divides by 4294967296, from the advanced t
RngOutput(t) ==
    Bind([w \in {<<t[2], t[3]>>} |->
    Bind([a1 \in {Xor32(w, Shr32(w, 15))} |->
    Bind([b1 \in {Or32(<<0, 1>>, w)} |->
    Bind([r1 \in {Imul32(a1, b1)} |->
    Bind([a2 \in {Xor32(r1, Shr32(r1, 7))} |->
    Bind([b2 \in {Or32(<<0, 61>>, r1)} |->
    Bind([m \in {Imul32(a2, b2)} |->
    Bind([sum \in {Add32(r1, m)} |->
    Bind([r2 \in {Xor32(r1, sum)} |->
        Xor32(r2, Shr32(r2, 14))])])])])])])])])])

\* next(): the integer whose quotient by 2^32 is returned, and the generator
\* after the call
RngNext(t) == Bind([t1 \in {RngAdvance(t)} |-> [value |-> RngOutput(t1), rng |-> t1]])

\* Math.floor(x * n) for 0 < n < 2^15, where x = r / 2^32 is what next() returned
FloorTimes(r, n) == ((r[1] * n) + ((r[2] * n) \div Half)) \div Half

\* Math.floor(rng.next() * n), from the advanced t
NextIndex(t, n) == Bind([r \in {RngOutput(t)} |-> FloorTimes(r, n)])

\* x < 0.5, where x = r / 2^32
BelowHalf(r) == r[1] < Pow2(15)

\* pickOne(arr, rng): the element and the generator after the draw
pickOne(arr, t) ==
    Bind([t1 \in {RngAdvance(t)} |->
        [value |-> arr[NextIndex(t1, Len(arr)) + 1], rng |-> t1]])

Swap(arr, i, j) == [arr EXCEPT ![i] = arr[j], ![j] = arr[i]]

\* shuffleInPlace: i runs from the last 1-based position down to 2
RECURSIVE ShuffleFrom(_, _, _)
ShuffleFrom(arr, i, t) ==
    IF i <= 1 THEN [value |-> arr, rng |-> t]
    ELSE Bind([t1 \in {RngAdvance(t)} |->
         Bind([j \in {NextIndex(t1, i) + 1} |->
         Bind([arr1 \in {Swap(arr, i, j)} |->
             ShuffleFrom(arr1, i - 1, t1)])])])

shuffleInPlace(arr, t) == Bind([a \in {arr} |-> ShuffleFrom(a, Len(a), t)])

\* ----------------------------------------------------- exemplar pair allocator

Max(S) == CHOOSE x \in S : \A y \in S : y <= x

\* new Map(exemplars.map(e => [e.index, e.relativePath])).get(idx) || ''
PathOfIndex(exemplars, idx) ==
    Bind([hits \in {{i \in 1..Len(exemplars) : exemplars[i].index = idx}} |->
        IF hits = {} THEN <<>> ELSE exemplars[Max(hits)].relativePath])

Indices(exemplars) == [i \in 1..Len(exemplars) |-> exemplars[i].index]

\* new ExemplarPairManager(images, audios, rng, avoidRepeat): the audio order
\* is shuffled first, then the image order
NewManager(images, audios, t, avoidRepeat) ==
    Bind([a \in {shuffleInPlace(Indices(audios), t)} |->
    Bind([im \in {shuffleInPlace(Indices(images), a.rng)} |->
        [mgr |-> [audioOrder |-> a.value, imageOrder |-> im.value,
                  aPtr |-> 0, iPtr |-> 0, used |-> {},
                  images |-> images, audios |-> audios, avoidRepeat |-> avoidRepeat],
         rng |-> im.rng]])])

At(order, ptr) == order[(ptr % Len(order)) + 1]

\* the while loop of nextPair: advance iPtr past pairs already used
RECURSIVE SkipUsed(_, _, _, _)
SkipUsed(m, aIdx, iPtr, tries) ==
    IF tries < Len(m.imageOrder) /\ <<aIdx, At(m.imageOrder, iPtr)>> \in m.used
    THEN SkipUsed(m, aIdx, iPtr + 1, tries + 1)
    ELSE [iPtr |-> iPtr, tries |-> tries]

\* a mutant of nextPair: pairs already used are not skipped
nextPairNoSkip(m) ==
    IF Len(m.audioOrder) = 0 \/ Len(m.imageOrder) = 0
    THEN [status |-> "error", error |-> "no_exemplars_for_pairing"]
    ELSE Bind([aIdx \in {At(m.audioOrder, m.aPtr)} |->
         Bind([imgIdx \in {At(m.imageOrder, m.iPtr)} |->
             [status |-> "ok",
              mgr |-> [m EXCEPT !.aPtr = m.aPtr + 1, !.iPtr = m.iPtr + 1,
                                !.used = m.used \cup {<<aIdx, imgIdx>>}],
              audioIndex |-> aIdx, audioPath |-> PathOfIndex(m.audios, aIdx),
              imageIndex |-> imgIdx, imagePath |-> PathOfIndex(m.images, imgIdx)]])])

nextPair(m) ==
    IF Len(m.audioOrder) = 0 \/ Len(m.imageOrder) = 0
    THEN [status |-> "error", error |-> "no_exemplars_for_pairing"]
    ELSE Bind([aIdx \in {At(m.audioOrder, m.aPtr)} |->
         Bind([sk \in {IF m.avoidRepeat THEN SkipUsed(m, aIdx, m.iPtr, 0)
             ELSE [iPtr |-> m.iPtr, tries |-> 0]} |->
         Bind([used1 \in {IF m.avoidRepeat /\ sk.tries >= Len(m.imageOrder) THEN {} ELSE m.used} |->
         Bind([imgIdx \in {At(m.imageOrder, sk.iPtr)} |->
             [status |-> "ok",
              mgr |-> [m EXCEPT !.aPtr = m.aPtr + 1, !.iPtr = sk.iPtr + 1,
                                !.used = used1 \cup {<<aIdx, imgIdx>>}],
              audioIndex |-> aIdx, audioPath |-> PathOfIndex(m.audios, aIdx),
              imageIndex |-> imgIdx, imagePath |-> PathOfIndex(m.images, imgIdx)]])])])])

nextImageOnly(m) ==
    IF Len(m.imageOrder) = 0
    THEN [status |-> "error", error |-> "no_image_exemplars"]
    ELSE Bind([imgIdx \in {At(m.imageOrder, m.iPtr)} |->
             [status |-> "ok", mgr |-> [m EXCEPT !.iPtr = m.iPtr + 1],
              imageIndex |-> imgIdx, imagePath |-> PathOfIndex(m.images, imgIdx)]])

\* ------------------------------------------------------------- pool builder

\* String.prototype.toLowerCase over the letters of the model's strings
LowerChar(c) ==
    CASE c = "F" -> "f" [] c = "M" -> "m" [] c = "U" -> "u"
      [] c = "J" -> "j" [] c = "P" -> "p" [] c = "G" -> "g" [] OTHER -> c

\* lowerStr(v); an absent property is the empty string (valStr)
lowerStr(v) == [i \in 1..Len(v) |-> LowerChar(v[i])]

FAMILIAR == <<"f", "a", "m", "i", "l", "i", "a", "r">>
UNFAMILIAR == <<"u", "n">> \o FAMILIAR

\* the position of the first identity with this id, 0 when there is none
identityById(manifest, id) ==
    Bind([hits \in {{i \in 1..Len(manifest.identities) : manifest.identities[i].id = id}} |->
        IF hits = {} THEN 0 ELSE CHOOSE i \in hits : \A j \in hits : i <= j])

\* a || b || c on strings: the first non-empty one, else the last
FirstTruthy(a, b, c) == IF a # <<>> THEN a ELSE IF b # <<>> THEN b ELSE c

PoolError(kind) == [status |-> "error", error |-> kind]

\* the loop of buildPools without its first test, the subject not left out
PoolOfWithSubject(manifest, subjectId, partnerSex, familiarity) ==
    LET InPool(e) ==
            /\ lowerStr(e.properties.sex) = partnerSex
            /\ lowerStr(e.properties.familiarity) = familiarity
    IN  SelectSeq(manifest.identities, InPool)

\* the loop of buildPools: the identities of the partner's sex, the subject
\* left out, with this familiarity
PoolOf(manifest, subjectId, partnerSex, familiarity) ==
    LET InPool(e) ==
            /\ e.id # subjectId
            /\ lowerStr(e.properties.sex) = partnerSex
            /\ lowerStr(e.properties.familiarity) = familiarity
    IN  SelectSeq(manifest.identities, InPool)

buildPools(manifest, subjectId) ==
    Bind([si \in {identityById(manifest, subjectId)} |->
        IF si = 0 THEN PoolError("subject_not_found")
        ELSE
        Bind([subj \in {manifest.identities[si]} |->
        Bind([partnerId \in {Trim(FirstTruthy(subj.properties.partner_ID, subj.properties.partnerId,
                             subj.properties.partner))} |->
            IF partnerId = <<>> THEN PoolError("no_partner_id")
            ELSE
            Bind([pi \in {identityById(manifest, partnerId)} |->
                IF pi = 0 THEN PoolError("partner_not_found")
                ELSE
                Bind([partner \in {manifest.identities[pi]} |->
                Bind([partnerSex \in {lowerStr(partner.properties.sex)} |->
                    IF partnerSex = <<>> THEN PoolError("partner_no_sex")
                    ELSE [status |-> "ok", error |-> "",
                          subject |-> subj, partner |-> partner, partnerSex |-> partnerSex,
                          familiar |-> PoolOf(manifest, subjectId, partnerSex, FAMILIAR),
                          unfamiliar |-> PoolOf(manifest, subjectId, partnerSex, UNFAMILIAR)]
                ])])])])])])

\* --------------------------------------------------------- trial scheduler

\* Number.prototype.toString(36) of a 32-bit word, most significant digit
\* first, as digit values 0..35
RECURSIVE Base36(_)
Base36(w) ==
    Bind([rest \in {(w[1] % 36) * Half + w[2]} |->
    Bind([q \in {<<w[1] \div 36, rest \div 36>>} |->
        IF q = <<0, 0>> THEN <<rest % 36>> ELSE Append(Base36(q), rest % 36)])])

\* buildSessionId: the first six base-36 digits of the hash of subjectId::seed
buildSessionId(subjectId, seed) ==
    Bind([hash \in {hashStringToInt(subjectId \o <<":", ":">> \o seed)} |->
    Bind([h \in {Base36(hash)} |->
        SubSeq(h, 1, IF Len(h) < 6 THEN Len(h) ELSE 6)])])

HasMedia(e) == Len(e.imageExemplars) > 0 /\ Len(e.audioExemplars) > 0

Ids(entries) == [i \in 1..Len(entries) |-> entries[i].id]

\* n draws of pickOne(pool, rng), in order
RECURSIVE PickMany(_, _, _)
PickMany(pool, n, t) ==
    IF n <= 0 THEN [value |-> <<>>, rng |-> t]
    ELSE Bind([p \in {pickOne(pool, t)} |->
         Bind([rest \in {PickMany(pool, n - 1, p.rng)} |->
             [value |-> <<p.value>> \o rest.value, rng |-> rest.rng]])])

Repeat(x, n) == [i \in 1..n |-> x]

Tag(ids, category) == [i \in 1..Len(ids) |-> [id |-> ids[i], category |-> category]]

\* a mutant of PartnerSide: the comparison with the left quota is off by one
PartnerSideOffByOne(balanceSides, assignedLeft, partnerOnLeftCount, r) ==
    IF balanceSides
    THEN IF assignedLeft <= partnerOnLeftCount THEN "left" ELSE "right"
    ELSE IF BelowHalf(r) THEN "left" ELSE "right"

\* partnerSide of one trial; r is the rng output drawn when sides are not balanced
PartnerSide(balanceSides, assignedLeft, partnerOnLeftCount, r) ==
    IF balanceSides
    THEN IF assignedLeft < partnerOnLeftCount THEN "left" ELSE "right"
    ELSE IF BelowHalf(r) THEN "left" ELSE "right"

\* a mutant of CorrectSide: the partner's side is always the correct one
CorrectSideAlwaysPartner(isPartnerCall, partnerSide, leftImage, callIdentityId) ==
    partnerSide

CorrectSide(isPartnerCall, partnerSide, leftImage, callIdentityId) ==
    IF isPartnerCall THEN partnerSide
    ELSE IF leftImage.identityId = callIdentityId THEN "left" ELSE "right"

Stimulus(id, idx, p) == [identityId |-> id, exemplarIndex |-> idx, path |-> p]

\* a mutant of getMgrForCall / getMgrForImagesOnly: no manager is kept, each
\* reference makes a new one
GetManagerUncached(cache, identity, audios, t, avoidRepeat) ==
    NewManager(identity.imageExemplars, audios, t, avoidRepeat)

\* a mutant of getMgrForCall / getMgrForImagesOnly: the manager kept first is
\* returned whatever the identity
GetManagerAnyKey(cache, identity, audios, t, avoidRepeat) ==
    IF DOMAIN cache # {}
    THEN [mgr |-> cache[CHOOSE k \in DOMAIN cache : TRUE], rng |-> t]
    ELSE NewManager(identity.imageExemplars, audios, t, avoidRepeat)

\* getMgrForCall / getMgrForImagesOnly: the cached manager of the identity, or
\* a new one, which shuffles with the shared rng
GetManager(cache, identity, audios, t, avoidRepeat) ==
    IF identity.id \in DOMAIN cache
    THEN [mgr |-> cache[identity.id], rng |-> t]
    ELSE NewManager(identity.imageExemplars, audios, t, avoidRepeat)

Put(cache, key, value) ==
    [k \in DOMAIN cache \cup {key} |-> IF k = key THEN value ELSE cache[k]]

PlaceholderAudio == <<[index |-> 1, relativePath |-> <<>>]>>

GenError(kind) == [status |-> "error", error |-> kind]

\* the images of one trial, its record, and the loop's variables after it
\* call holds what the first half of the pass settled about the call
PlaceImages(c, st, idx, call, otherIdentity, tSide, partnerSide) ==
    Bind([partnerImg \in {nextImageOnly(st.partnerMgr)} |->
    Bind([om \in {GetManager(st.idToImageMgr, otherIdentity,
                   IF Len(otherIdentity.audioExemplars) > 0
                   THEN otherIdentity.audioExemplars ELSE PlaceholderAudio,
                   tSide, FALSE)} |->
    Bind([otherImg \in {nextImageOnly(om.mgr)} |->
        IF partnerImg.status # "ok" THEN GenError(partnerImg.error)
        ELSE IF otherImg.status # "ok" THEN GenError(otherImg.error)
        ELSE
        Bind([pStim \in {Stimulus(c.partner.id, partnerImg.imageIndex, partnerImg.imagePath)} |->
        Bind([oStim \in {Stimulus(otherIdentity.id, otherImg.imageIndex, otherImg.imagePath)} |->
        Bind([leftImage \in {IF partnerSide = "left" THEN pStim ELSE oStim} |->
        Bind([rightImage \in {IF partnerSide = "left" THEN oStim ELSE pStim} |->
            [status |-> "ok",
             trial |->
                [trialId |-> <<c.subject.id, c.sessionId, idx>>,
                 trialNumber |-> idx,
                 subjectId |-> c.subject.id,
                 partnerId |-> c.partner.id,
                 callIdentityId |-> call.identity.id,
                 callCategory |-> call.cell.category,
                 isPartnerCall |-> call.isPartnerCall,
                 otherIdentityId |-> otherIdentity.id,
                 otherCategory |->
                    IF \E i \in 1..Len(c.familiar) : c.familiar[i].id = otherIdentity.id
                    THEN "familiar" ELSE "unfamiliar",
                 partnerSide |-> partnerSide,
                 correctSide |-> CorrectSide(call.isPartnerCall, partnerSide, leftImage,
                                             call.identity.id),
                 audio |-> Stimulus(call.identity.id, call.pair.audioIndex, call.pair.audioPath),
                 leftImage |-> leftImage,
                 rightImage |-> rightImage,
                 seed |-> c.config.seed],
             rng |-> om.rng,
             partnerMgr |-> partnerImg.mgr,
             idToCallMgr |-> call.idToCallMgr,
             idToImageMgr |-> Put(st.idToImageMgr, otherIdentity.id, otherImg.mgr),
             assignedLeft |->
                IF c.config.balanceSides /\ partnerSide = "left"
                THEN st.assignedLeft + 1 ELSE st.assignedLeft]
        ])])])])])])])

\* a mutant of the other pool: the partner is not filtered out
OtherPoolUnfiltered(c) == c.famWithMedia \o c.unfamWithMedia

\* the pool the other identity of a partner call is picked from
OtherPool(c) ==
    LET IsOther(e) == e.id # c.partner.id
    IN  SelectSeq(c.famWithMedia \o c.unfamWithMedia, IsOther)

\* one pass of the loop over scheduledCalls (idx is 1-based here): c holds
\* what the loop only reads, st what it updates
ScheduleStep(c, st, idx) ==
    Bind([cell \in {c.scheduledCalls[idx]} |->
    Bind([isPartnerCall \in {cell.id = c.partner.id} |->
    Bind([ci \in {identityById(c.manifest, cell.id)} |->
        IF ~isPartnerCall /\ ci = 0 THEN GenError("call_identity_not_found")
        ELSE
        Bind([callIdentity \in {IF isPartnerCall THEN c.partner ELSE c.manifest.identities[ci]} |->
        Bind([cm \in {GetManager(st.idToCallMgr, callIdentity, callIdentity.audioExemplars,
                       st.rng, c.config.avoidRepeatPairings)} |->
        Bind([pair \in {nextPair(cm.mgr)} |->
            IF pair.status # "ok" THEN GenError(pair.error)
            ELSE
            Bind([idToCallMgr1 \in {Put(st.idToCallMgr, callIdentity.id, pair.mgr)} |->
            Bind([otherPool \in {OtherPool(c)} |->
                IF isPartnerCall /\ Len(otherPool) = 0 THEN GenError("no_other_identities")
                ELSE
                Bind([pick \in {IF isPartnerCall THEN pickOne(otherPool, cm.rng)
                    ELSE [value |-> callIdentity, rng |-> cm.rng]} |->
                Bind([tSide \in {IF c.config.balanceSides THEN pick.rng ELSE RngAdvance(pick.rng)} |->
                Bind([r \in {RngOutput(tSide)} |->
                Bind([partnerSide \in {PartnerSide(c.config.balanceSides, st.assignedLeft,
                                c.partnerOnLeftCount, r)} |->
                    PlaceImages(c, st, idx,
                                [cell |-> cell, isPartnerCall |-> isPartnerCall,
                                 identity |-> callIdentity, pair |-> pair,
                                 idToCallMgr |-> idToCallMgr1],
                                pick.value, tSide, partnerSide)
                ])])])])])])])])])])])])

RECURSIVE ScheduleLoop(_, _, _)
ScheduleLoop(c, st, idx) ==
    IF idx > Len(c.scheduledCalls) THEN [status |-> "ok", trials |-> st.trials]
    ELSE Bind([step \in {ScheduleStep(c, st, idx)} |->
             IF step.status # "ok" THEN step
             ELSE Bind([st1 \in {[rng |-> step.rng, partnerMgr |-> step.partnerMgr,
                       idToCallMgr |-> step.idToCallMgr,
                       idToImageMgr |-> step.idToImageMgr,
                       assignedLeft |-> step.assignedLeft,
                       trials |-> Append(st.trials, step.trial)]} |->
                      Bind([next \in {idx + 1} |-> ScheduleLoop(c, st1, next)])])])

\* the schedule: nPartner partner entries and the familiar picks, then the
\* unfamiliar picks, shuffled as one list
BuildSchedule(partner, famWithMedia, unfamWithMedia, counts, t) ==
    Bind([famPicks \in {PickMany(Ids(famWithMedia), counts.nFamiliarNonPartner, t)} |->
    Bind([unfamPicks \in {PickMany(Ids(unfamWithMedia), counts.nUnfamiliar, famPicks.rng)} |->
        shuffleInPlace(Tag(Repeat(partner.id, counts.nPartner) \o famPicks.value, "familiar")
                           \o Tag(unfamPicks.value, "unfamiliar"),
                       unfamPicks.rng)])])

\* generateTrials after createRng and buildPools.  now is the value new Date()
\* has when the meta record is built.
GenerateFromPools(manifest, config, now, rng, pools) ==
    Bind([partner \in {pools.partner} |->
    Bind([famWithMedia \in {LET NotPartner(e) == e.id # partner.id
        IN  SelectSeq(SelectSeq(pools.familiar, NotPartner), HasMedia)} |->
    Bind([unfamWithMedia \in {SelectSeq(pools.unfamiliar, HasMedia)} |->
    Bind([counts \in {computeCounts(config.totalTrials, config.familiarFraction,
                      config.partnerFractionWithinFamiliar,
                      [familiarNonPartner |-> Len(famWithMedia),
                       unfamiliar |-> Len(unfamWithMedia),
                       partner |-> IF HasMedia(partner) THEN 1 ELSE 0])} |->
    Bind([sessionId \in {buildSessionId(pools.subject.id, config.seed)} |->
    Bind([pm \in {NewManager(partner.imageExemplars, partner.audioExemplars, rng,
                   config.avoidRepeatPairings)} |->
    Bind([sched \in {BuildSchedule(partner, famWithMedia, unfamWithMedia, counts, pm.rng)} |->
    Bind([looped \in {ScheduleLoop(
            [manifest |-> manifest, config |-> config,
             subject |-> pools.subject, partner |-> partner,
             familiar |-> pools.familiar,
             famWithMedia |-> famWithMedia, unfamWithMedia |-> unfamWithMedia,
             sessionId |-> sessionId,
             scheduledCalls |-> sched.value,
             partnerOnLeftCount |->
                 IF config.balanceSides THEN Len(sched.value) \div 2 ELSE -1],
            [rng |-> sched.rng, partnerMgr |-> pm.mgr,
             idToCallMgr |-> <<>>, idToImageMgr |-> <<>>,
             assignedLeft |-> 0, trials |-> <<>>],
            1)} |->
        IF looped.status # "ok" THEN GenError(looped.error)
        ELSE [status |-> "ok", error |-> "",
              meta |-> [subjectId |-> pools.subject.id,
                        partnerId |-> partner.id,
                        totalTrials |-> Len(looped.trials),
                        seed |-> config.seed,
                        dataDirLabel |-> IF manifest.meta.dataDirLabel # <<>>
                                         THEN manifest.meta.dataDirLabel
                                         ELSE <<"d", "a", "t", "a", "s", "e", "t">>,
                        generatedAt |-> now,
                        config |-> config,
                        warnings |-> counts.warnings],
              trials |-> looped.trials]
    ])])])])])])])])

\* a mutant of generateTrials after createRng: the partner's audio exemplars
\* are not required
RunGenerationNoAudioCheck(manifest, subjectId, config, now, rng) ==
    Bind([pools \in {buildPools(manifest, subjectId)} |->
        IF pools.status # "ok" THEN GenError(pools.error)
        ELSE IF Len(pools.partner.imageExemplars) = 0 THEN GenError("partner_no_images")
        ELSE GenerateFromPools(manifest, config, now, rng, pools)])

\* generateTrials after createRng
RunGeneration(manifest, subjectId, config, now, rng) ==
    Bind([pools \in {buildPools(manifest, subjectId)} |->
        IF pools.status # "ok" THEN GenError(pools.error)
        ELSE IF Len(pools.partner.imageExemplars) = 0 THEN GenError("partner_no_images")
        ELSE IF Len(pools.partner.audioExemplars) = 0 THEN GenError("partner_no_audios")
        ELSE GenerateFromPools(manifest, config, now, rng, pools)])

\* a mutant of generateTrials: the generator is seeded with the seed and the
\* time of the call
generateTrialsTimeSeeded(manifest, subjectId, config, now) ==
    Bind([rng \in {createRng(config.seed \o Repeat("t", now))} |->
        RunGeneration(manifest, subjectId, config, now, rng)])

generateTrials(manifest, subjectId, config, now) ==
    Bind([rng \in {createRng(config.seed)} |->
        RunGeneration(manifest, subjectId, config, now, rng)])

\* ------------------------------------------------------------ bundle paths

MediaImagesDir == <<"m", "e", "d", "i", "a", "/", "i", "m", "a", "g", "e", "s", "/">>
MediaAudioDir == <<"m", "e", "d", "i", "a", "/", "a", "u", "d", "i", "o", "/">>
TrialSetsDir == <<"t", "r", "i", "a", "l", "_", "s", "e", "t", "s", "/">>
TrialsJson == <<"t", "r", "i", "a", "l", "s", ".", "j", "s", "o", "n">>
TrialsCsv == <<"t", "r", "i", "a", "l", "s", ".", "c", "s", "v">>
DatasetMetaJson ==
    <<"d", "a", "t", "a", "s", "e", "t", "_", "m", "e", "t", "a", ".", "j", "s", "o", "n">>
ManifestJson == <<"m", "a", "n", "i", "f", "e", "s", "t", ".", "j", "s", "o", "n">>

EndsWith(s, suffix) ==
    /\ Len(suffix) <= Len(s)
    /\ SubSeq(s, Len(s) - Len(suffix) + 1, Len(s)) = suffix

\* path.slice(path.lastIndexOf('/') + 1), the whole path when it has no '/'
fileNameFromPath(p) ==
    Bind([slashes \in {{i \in 1..Len(p) : p[i] = "/"}} |->
        IF slashes = {} THEN p ELSE SubSeq(p, Max(slashes) + 1, Len(p))])

normalizeBundleImagePath(fileName) == MediaImagesDir \o fileName

normalizeBundleAudioPath(fileName) == MediaAudioDir \o fileName

\* A Map, and an object used as a dictionary, is the sequence of its entries
\* [key, value] in insertion order; set on a present key keeps its position.
MapKeys(m) == {m[i].key : i \in 1..Len(m)}

MapHas(m, k) == \E i \in 1..Len(m) : m[i].key = k

MapGet(m, k) == m[CHOOSE i \in 1..Len(m) : m[i].key = k].value

MapSet(m, k, v) ==
    IF MapHas(m, k)
    THEN [i \in 1..Len(m) |-> IF m[i].key = k THEN [key |-> k, value |-> v] ELSE m[i]]
    ELSE Append(m, [key |-> k, value |-> v])

\* a < b in UTF-16 code unit order
RECURSIVE CodeLess(_, _)
CodeLess(a, b) ==
    IF a = <<>> THEN b # <<>>
    ELSE IF b = <<>> THEN FALSE
    ELSE IF a[1] = b[1] THEN CodeLess(Tail(a), Tail(b))
    ELSE CharCode(a[1]) < CharCode(b[1])

\* Array.prototype.sort on strings: insertion into the sorted prefix
RECURSIVE SortStrings(_)
SortStrings(keys) ==
    IF keys = <<>> THEN <<>>
    ELSE Bind([sorted \in {SortStrings(SubSeq(keys, 1, Len(keys) - 1))} |->
         Bind([k \in {keys[Len(keys)]} |->
            LET NotAfter(x) == ~CodeLess(k, x)
                After(x) == CodeLess(k, x)
            IN  SelectSeq(sorted, NotAfter) \o <<k>> \o SelectSeq(sorted, After)])])

\* the first entry of a sequence of outcomes that is not "ok", else "ok"
FirstFailure(outcomes) ==
    Bind([bad \in {{i \in 1..Len(outcomes) : outcomes[i] # "ok"}} |->
        IF bad = {} THEN "ok" ELSE outcomes[CHOOSE i \in bad : \A j \in bad : i <= j]])

RECURSIVE Concat(_)
Concat(ss) == IF ss = <<>> THEN <<>> ELSE Head(ss) \o Concat(Tail(ss))

\* --------------------------------------------------------- bundle assembler

\* a throw of the bundle code: the throw site and the value its message quotes
BundleError(kind, about) == [status |-> "error", error |-> kind, about |-> about]

\* new Date().toISOString(): a non-empty string for the instant
toISOString(now) == <<"T", DigitChar(now + 1)>>

\* the Map from file name to the files of the raw collection with that name
buildMediaIndexByFileName(files) ==
    [name \in {files[i].name : i \in 1..Len(files)} |->
        LET Named(f) == f.name = name IN SelectSeq(files, Named)]

\* a mutant of findUniqueFileByName: of several files with the name, the
\* first is taken
findFirstFileByName(index, fileName) ==
    Bind([list \in {IF fileName \in DOMAIN index THEN index[fileName] ELSE <<>>} |->
        IF Len(list) = 0 THEN BundleError("missing_media_file", fileName)
        ELSE [status |-> "ok", file |-> list[1]]])

findUniqueFileByName(index, fileName) ==
    Bind([list \in {IF fileName \in DOMAIN index THEN index[fileName] ELSE <<>>} |->
        IF Len(list) = 0 THEN BundleError("missing_media_file", fileName)
        ELSE IF Len(list) > 1 THEN BundleError("duplicate_media_filename", fileName)
        ELSE [status |-> "ok", file |-> list[1]]])

normalizeManifestToBundlePaths(manifest) ==
    [meta |-> manifest.meta,
     identities |->
        [i \in 1..Len(manifest.identities) |->
            LET e == manifest.identities[i]
            IN  [e EXCEPT
                    !.imageExemplars =
                        [j \in 1..Len(e.imageExemplars) |->
                            [e.imageExemplars[j] EXCEPT !.relativePath =
                                normalizeBundleImagePath(e.imageExemplars[j].fileName)]],
                    !.audioExemplars =
                        [j \in 1..Len(e.audioExemplars) |->
                            [e.audioExemplars[j] EXCEPT !.relativePath =
                                normalizeBundleAudioPath(e.audioExemplars[j].fileName)]]]]]

\* normalizeTrialSetToBundlePaths: every path becomes the canonical path of
\* its file name; a canonical path that is not safe is a throw
CanonicalTrial(t) ==
    [t EXCEPT !.audio.path = normalizeBundleAudioPath(fileNameFromPath(t.audio.path)),
              !.leftImage.path = normalizeBundleImagePath(fileNameFromPath(t.leftImage.path)),
              !.rightImage.path = normalizeBundleImagePath(fileNameFromPath(t.rightImage.path))]

normalizeTrialSetToBundlePaths(trialSet) ==
    Bind([trials \in {[i \in 1..Len(trialSet.trials) |-> CanonicalTrial(trialSet.trials[i])]} |->
    Bind([unsafe \in {FirstFailure(Concat([i \in 1..Len(trials) |->
                        << assertSafeInternalPath(trials[i].audio.path),
                           assertSafeInternalPath(trials[i].leftImage.path),
                           assertSafeInternalPath(trials[i].rightImage.path) >>]))} |->
        IF unsafe # "ok" THEN BundleError(unsafe, <<>>)
        ELSE [status |-> "ok", value |-> [meta |-> trialSet.meta, trials |-> trials]]])])

\* cfg = { ...baseConfig, seed }
WithSeed(baseConfig, seed) ==
    [f \in DOMAIN baseConfig \cup {"seed"} |-> IF f = "seed" THEN seed ELSE baseConfig[f]]

\* one pass of the loop of generateMultiSubjectTrials and the passes after
\* it: a throw of deriveSubjectSeed, generateTrials or
\* normalizeTrialSetToBundlePaths leaves the function, and out with it
RECURSIVE MultiSubjectLoop(_, _, _, _)
MultiSubjectLoop(c, i, out, now) ==
    IF i > Len(c.selectedSubjectIds) THEN [status |-> "ok", value |-> out]
    ELSE
    Bind([seed \in {deriveSubjectSeed(c.seedPolicy, c.selectedSubjectIds[i])} |->
        IF seed.status # "ok" THEN GenError(seed.error)
        ELSE
        Bind([ts \in {generateTrials(c.manifest, c.selectedSubjectIds[i],
                                     WithSeed(c.baseConfig, seed.value), now)} |->
            IF ts.status # "ok" THEN GenError(ts.error)
            ELSE
            Bind([norm \in {normalizeTrialSetToBundlePaths(ts)} |->
                IF norm.status # "ok" THEN GenError(norm.error)
                ELSE MultiSubjectLoop(c, i + 1,
                                      MapSet(out, c.selectedSubjectIds[i], norm.value),
                                      now)])])])

\* a mutant of generateMultiSubjectTrials: every subject is generated with the
\* seed derived for the first subject of the list
generateMultiSubjectTrialsFirstSeed(manifest, selectedSubjectIds, baseConfig, seedPolicy, now) ==
    IF selectedSubjectIds = <<>> \/ deriveSubjectSeed(seedPolicy, selectedSubjectIds[1]).status # "ok"
    THEN MultiSubjectLoop([manifest |-> manifest, selectedSubjectIds |-> selectedSubjectIds,
                           baseConfig |-> baseConfig, seedPolicy |-> seedPolicy], 1, <<>>, now)
    ELSE MultiSubjectLoop([manifest |-> manifest, selectedSubjectIds |-> selectedSubjectIds,
                           baseConfig |-> baseConfig,
                           seedPolicy |-> buildSeedPolicyPerSubject(
                               [k \in Range(selectedSubjectIds) |->
                                   deriveSubjectSeed(seedPolicy, selectedSubjectIds[1]).value])],
                          1, <<>>, now)

generateMultiSubjectTrials(manifest, selectedSubjectIds, baseConfig, seedPolicy, now) ==
    MultiSubjectLoop([manifest |-> manifest, selectedSubjectIds |-> selectedSubjectIds,
                      baseConfig |-> baseConfig, seedPolicy |-> seedPolicy], 1, <<>>, now)

\* what the manifest and one trial set refer to, in the order the loops of
\* validateMediaReferencesStrict visit it
ExemplarRefs(exemplars) ==
    [j \in 1..Len(exemplars) |->
        [path |-> exemplars[j].relativePath, fileName |-> exemplars[j].fileName]]

ManifestRefs(manifest) ==
    Concat([i \in 1..Len(manifest.identities) |->
                ExemplarRefs(manifest.identities[i].imageExemplars)
                    \o ExemplarRefs(manifest.identities[i].audioExemplars)])

PathRef(p) == [path |-> p, fileName |-> fileNameFromPath(p)]

TrialRefs(t) == <<PathRef(t.audio.path), PathRef(t.leftImage.path), PathRef(t.rightImage.path)>>

TrialSetRefs(ts) == Concat([i \in 1..Len(ts.trials) |-> TrialRefs(ts.trials[i])])

\* the body the loops share: the path is checked, its file name resolved,
\* and the file recorded under the path
RECURSIVE ResolveRefs(_, _, _, _)
ResolveRefs(refs, i, index, map) ==
    IF i > Len(refs) THEN [status |-> "ok", map |-> map]
    ELSE Bind([safe \in {assertSafeInternalPath(refs[i].path)} |->
            IF safe # "ok" THEN BundleError(safe, refs[i].path)
            ELSE Bind([found \in {findUniqueFileByName(index, refs[i].fileName)} |->
                    IF found.status # "ok" THEN found
                    ELSE Bind([map1 \in {MapSet(map, refs[i].path, found.file)} |->
                            ResolveRefs(refs, i + 1, index, map1)])])])

\* a mutant of ZeroTrialsCheck: an empty trial list is let through
ZeroTrialsCheckSkipped(subjectId, ts) == [status |-> "ok"]

\* if (!ts.trials.length) throw, after the trials of the subject
ZeroTrialsCheck(subjectId, ts) ==
    IF Len(ts.trials) = 0 THEN BundleError("zero_trials", subjectId)
    ELSE [status |-> "ok"]

\* the loop over Object.entries(trialSets)
RECURSIVE ResolveSubjects(_, _, _, _)
ResolveSubjects(trialSets, i, index, map) ==
    IF i > Len(trialSets) THEN [status |-> "ok", map |-> map]
    ELSE Bind([refs \in {TrialSetRefs(trialSets[i].value)} |->
         Bind([resolved \in {ResolveRefs(refs, 1, index, map)} |->
            IF resolved.status # "ok" THEN resolved
            ELSE Bind([zero \in {ZeroTrialsCheck(trialSets[i].key, trialSets[i].value)} |->
                    IF zero.status # "ok" THEN zero
                    ELSE ResolveSubjects(trialSets, i + 1, index, resolved.map)])])])

validateMediaReferencesStrict(normalizedManifest, trialSets, mediaIndexByFileName) ==
    Bind([refs \in {ManifestRefs(normalizedManifest)} |->
    Bind([resolved \in {ResolveRefs(refs, 1, mediaIndexByFileName, <<>>)} |->
        IF resolved.status # "ok" THEN resolved
        ELSE ResolveSubjects(trialSets, 1, mediaIndexByFileName, resolved.map)])])

RECURSIVE SumTrials(_)
SumTrials(trialSets) ==
    IF trialSets = <<>> THEN 0
    ELSE Len(Head(trialSets).value.trials) + SumTrials(Tail(trialSets))

buildCounts(trialSets) ==
    [overallTrials |-> SumTrials(trialSets),
     perSubjectTrials |->
        [i \in 1..Len(trialSets) |->
            [key |-> trialSets[i].key, value |-> Len(trialSets[i].value.trials)]]]

buildBundleInMemory(datasetId, sourceDataDirLabel, manifest, trialSets, seedPolicy, generatorConfig, datasetFiles, now) ==
    Bind([normalizedManifest \in {normalizeManifestToBundlePaths(manifest)} |->
    Bind([mediaIndexByFileName \in {buildMediaIndexByFileName(datasetFiles)} |->
    Bind([media \in {validateMediaReferencesStrict(normalizedManifest, trialSets,
                                                  mediaIndexByFileName)} |->
        IF media.status # "ok" THEN media
        ELSE [status |-> "ok",
              datasetMeta |->
                 [dataset_id |-> datasetId,
                  created_at |-> toISOString(now),
                  source_data_dir_label |-> sourceDataDirLabel,
                  subjects |-> SortStrings([i \in 1..Len(trialSets) |-> trialSets[i].key]),
                  seed_policy |-> seedPolicy,
                  generator_config |-> generatorConfig,
                  counts |-> buildCounts(trialSets)],
              manifest |-> normalizedManifest,
              trialSets |-> trialSets,
              mediaByInternalPath |-> media.map]])])])

\* the contents of the files of a bundle.  JSON.stringify followed by
\* JSON.parse gives back a value built of strings, numbers, booleans, arrays
\* and plain objects, which is what the three documents hold; anything else
\* is not JSON.
JsonFile(v) == [kind |-> "json", value |-> v]

CsvFile(trialSet) == [kind |-> "csv", rows |-> Len(trialSet.trials)]

MediaFile(f) == [kind |-> "media", file |-> f]

Slash == <<"/">>

RECURSIVE ZipTrialSets(_, _, _)
ZipTrialSets(zip, subjects, trialSets) ==
    IF subjects = <<>> THEN zip
    ELSE Bind([subjectId \in {Head(subjects)} |->
         Bind([ts \in {MapGet(trialSets, subjectId)} |->
         Bind([withJson \in {MapSet(zip, TrialSetsDir \o subjectId \o Slash \o TrialsJson,
                                    JsonFile(ts))} |->
         Bind([withCsv \in {MapSet(withJson, TrialSetsDir \o subjectId \o Slash \o TrialsCsv,
                                   CsvFile(ts))} |->
            ZipTrialSets(withCsv, Tail(subjects), trialSets)])])])])

RECURSIVE ZipMedia(_, _, _)
ZipMedia(zip, media, i) ==
    IF i > Len(media) THEN [status |-> "ok", zip |-> zip]
    ELSE Bind([safe \in {assertSafeInternalPath(media[i].key)} |->
            IF safe # "ok" THEN BundleError(safe, media[i].key)
            ELSE Bind([zip1 \in {MapSet(zip, media[i].key, MediaFile(media[i].value))} |->
                    ZipMedia(zip1, media, i + 1)])])

\* buildBundleZipBlob: the entries of the archive, a later entry of the same
\* name replacing the earlier one
buildBundleZipBlob(bundle) ==
    Bind([docs \in {<<[key |-> DatasetMetaJson, value |-> JsonFile(bundle.datasetMeta)],
                     [key |-> ManifestJson, value |-> JsonFile(bundle.manifest)]>>} |->
    Bind([subjects \in {SortStrings([i \in 1..Len(bundle.trialSets) |->
                                        bundle.trialSets[i].key])} |->
    Bind([withSets \in {ZipTrialSets(docs, subjects, bundle.trialSets)} |->
        ZipMedia(withSets, bundle.mediaByInternalPath, 1)])])])

\* the File objects of a directory selection of the folder rootLabel that
\* holds the entries of the archive
DirectorySelection(zip, rootLabel) ==
    [i \in 1..Len(zip) |->
        [webkitRelativePath |-> rootLabel \o Slash \o zip[i].key,
         name |-> fileNameFromPath(zip[i].key),
         content |-> zip[i].value]]

\* ------------------------------------------------------------ bundle parser

BundleLabel == <<"b", "u", "n", "d", "l", "e">>

inferRootLabel(files) ==
    IF Len(files) = 0 THEN BundleLabel
    ELSE Bind([rel \in {files[1].webkitRelativePath} |->
            IF rel = <<>> \/ "/" \notin Range(rel)
            THEN (IF rel # <<>> THEN rel ELSE BundleLabel)
            ELSE Split(rel, "/")[1]])

getInternalPath(file, rootLabel) ==
    Bind([rel \in {file.webkitRelativePath} |->
        IF rel = <<>> THEN file.name
        ELSE IF rel = rootLabel THEN file.name
        ELSE Bind([prefix \in {rootLabel \o Slash} |->
                IF StartsWith(rel, prefix) THEN SubSeq(rel, Len(prefix) + 1, Len(rel))
                ELSE rel])])

RECURSIVE IndexFiles(_, _, _, _)
IndexFiles(files, rootLabel, i, map) ==
    IF i > Len(files) THEN [status |-> "ok", map |-> map]
    ELSE Bind([p \in {getInternalPath(files[i], rootLabel)} |->
         Bind([safe \in {assertSafeInternalPath(p)} |->
            IF safe # "ok" THEN BundleError(safe, p)
            ELSE IF MapHas(map, p) THEN BundleError("duplicate_file_path", p)
            ELSE Bind([map1 \in {MapSet(map, p, files[i])} |->
                    IndexFiles(files, rootLabel, i + 1, map1)])])])

buildFileIndex(files, rootLabel) == IndexFiles(files, rootLabel, 1, <<>>)

\* file.text() and JSON.parse
readJsonFile(file) ==
    IF file.content.kind = "json" THEN [status |-> "ok", value |-> file.content.value]
    ELSE BundleError("invalid_json", file.name)

\* a mutant of IsTrialsJsonPath: a trials.json at any depth is collected
IsTrialsJsonPathAnyDepth(p) ==
    /\ StartsWith(p, TrialSetsDir)
    /\ EndsWith(p, Slash \o TrialsJson)
    /\ Split(p, "/")[2] # <<>>

\* the entries of out, before the sort
IsTrialsJsonPath(p) ==
    /\ StartsWith(p, TrialSetsDir)
    /\ EndsWith(p, Slash \o TrialsJson)
    /\ Len(Split(p, "/")) = 3
    /\ Split(p, "/")[2] # <<>>

\* out.sort by subjectId: a stable insertion into the sorted prefix.  On the
\* model's subject ids localeCompare orders as the code units do.
RECURSIVE SortBySubjectId(_)
SortBySubjectId(out) ==
    IF out = <<>> THEN <<>>
    ELSE Bind([sorted \in {SortBySubjectId(SubSeq(out, 1, Len(out) - 1))} |->
         Bind([e \in {out[Len(out)]} |->
            LET NotAfter(x) == ~CodeLess(e.subjectId, x.subjectId)
                After(x) == CodeLess(e.subjectId, x.subjectId)
            IN  SelectSeq(sorted, NotAfter) \o <<e>> \o SelectSeq(sorted, After)])])

collectTrialSetPaths(fileIndex) ==
    LET Collected(entry) == IsTrialsJsonPath(entry.key)
    IN  Bind([kept \in {SelectSeq(fileIndex, Collected)} |->
            SortBySubjectId([i \in 1..Len(kept) |->
                [subjectId |-> Split(kept[i].key, "/")[2],
                 trialsJsonPath |-> kept[i].key]])])

validateDatasetMetaShape(meta) ==
    Bind([dataset_id \in {Trim(meta.dataset_id)} |->
    Bind([created_at \in {Trim(meta.created_at)} |->
    Bind([source_data_dir_label \in {Trim(meta.source_data_dir_label)} |->
        IF dataset_id = <<>> THEN BundleError("dataset_id_required", <<>>)
        ELSE IF created_at = <<>> THEN BundleError("created_at_required", <<>>)
        ELSE IF source_data_dir_label = <<>>
             THEN BundleError("source_data_dir_label_required", <<>>)
        ELSE LET NonEmpty(s) == Len(s) > 0
             IN  [status |-> "ok",
                  value |-> [dataset_id |-> dataset_id,
                             created_at |-> created_at,
                             source_data_dir_label |-> source_data_dir_label,
                             subjects |-> SelectSeq(meta.subjects, NonEmpty),
                             seed_policy |-> meta.seed_policy,
                             generator_config |-> meta.generator_config,
                             counts |-> meta.counts]]])])])

\* the checks of one identity entry, in order: its id, its image exemplars,
\* its audio exemplars
IdentityShape(e) ==
    IF Trim(e.id) = <<>> THEN "identity_id_required"
    ELSE FirstFailure([j \in 1..Len(e.imageExemplars) |->
                            assertSafeInternalPath(e.imageExemplars[j].relativePath)]
                      \o [j \in 1..Len(e.audioExemplars) |->
                            assertSafeInternalPath(e.audioExemplars[j].relativePath)])

validateManifestShape(manifest) ==
    Bind([failure \in {FirstFailure([i \in 1..Len(manifest.identities) |->
                                        IdentityShape(manifest.identities[i])])} |->
        IF failure # "ok" THEN BundleError(failure, <<>>)
        ELSE [status |-> "ok", value |-> manifest]])

validateTrialSetShape(trialSet) ==
    IF Trim(trialSet.meta.subjectId) = <<>> THEN BundleError("subject_id_required", <<>>)
    ELSE Bind([failure \in {FirstFailure(Concat([i \in 1..Len(trialSet.trials) |->
                    << assertSafeInternalPath(trialSet.trials[i].audio.path),
                       assertSafeInternalPath(trialSet.trials[i].leftImage.path),
                       assertSafeInternalPath(trialSet.trials[i].rightImage.path) >>]))} |->
            IF failure # "ok" THEN BundleError(failure, <<>>)
            ELSE [status |-> "ok", value |-> trialSet]])

\* the loop of parseBundleFromDirectorySelection over trialSetPaths
RECURSIVE ReadTrialSets(_, _, _, _)
ReadTrialSets(trialSetPaths, fileIndex, i, trialSets) ==
    IF i > Len(trialSetPaths) THEN [status |-> "ok", value |-> trialSets]
    ELSE Bind([subjectId \in {trialSetPaths[i].subjectId} |->
         Bind([raw \in {readJsonFile(MapGet(fileIndex, trialSetPaths[i].trialsJsonPath))} |->
            IF raw.status # "ok" THEN raw
            ELSE Bind([ts \in {validateTrialSetShape(raw.value)} |->
                    IF ts.status # "ok" THEN ts
                    ELSE IF ts.value.meta.subjectId # subjectId
                         THEN BundleError("subject_mismatch", subjectId)
                    ELSE Bind([trialSets1 \in {MapSet(trialSets, subjectId, ts.value)} |->
                            ReadTrialSets(trialSetPaths, fileIndex, i + 1, trialSets1)])])])])

\* the first entry of a sequence of results that is a throw, else the last
FirstThrow(results) ==
    Bind([bad \in {{i \in 1..Len(results) : results[i].status # "ok"}} |->
        IF bad = {} THEN [status |-> "ok"]
        ELSE results[CHOOSE i \in bad : \A j \in bad : i <= j]])

\* the outcome of one path under validateMediaPresence; the message of a
\* missing path quotes the subject and the path
MediaPresent(subjectId, p, mediaByInternalPath) ==
    Bind([safe \in {assertSafeInternalPath(p)} |->
        IF safe # "ok" THEN BundleError(safe, p)
        ELSE IF ~MapHas(mediaByInternalPath, p)
             THEN BundleError("bundle_media_missing", <<subjectId, p>>)
        ELSE [status |-> "ok"]])

\* a mutant of validateMediaPresence: nothing is looked up
validateMediaPresenceSkipped(trialSets, mediaByInternalPath) == [status |-> "ok"]

validateMediaPresence(trialSets, mediaByInternalPath) ==
    FirstThrow(Concat([i \in 1..Len(trialSets) |->
        Concat([j \in 1..Len(trialSets[i].value.trials) |->
            << MediaPresent(trialSets[i].key, trialSets[i].value.trials[j].audio.path,
                            mediaByInternalPath),
               MediaPresent(trialSets[i].key, trialSets[i].value.trials[j].leftImage.path,
                            mediaByInternalPath),
               MediaPresent(trialSets[i].key, trialSets[i].value.trials[j].rightImage.path,
                            mediaByInternalPath) >>])]))

\* parseBundleFromDirectorySelection once the file index is built
ParseIndexed(bundleRootLabel, fileIndex) ==
    IF ~MapHas(fileIndex, DatasetMetaJson) THEN BundleError("missing_dataset_meta", <<>>)
    ELSE IF ~MapHas(fileIndex, ManifestJson) THEN BundleError("missing_manifest", <<>>)
    ELSE
    Bind([datasetMetaRaw \in {readJsonFile(MapGet(fileIndex, DatasetMetaJson))} |->
        IF datasetMetaRaw.status # "ok" THEN datasetMetaRaw
        ELSE
    Bind([datasetMeta \in {validateDatasetMetaShape(datasetMetaRaw.value)} |->
        IF datasetMeta.status # "ok" THEN datasetMeta
        ELSE
    Bind([manifestRaw \in {readJsonFile(MapGet(fileIndex, ManifestJson))} |->
        IF manifestRaw.status # "ok" THEN manifestRaw
        ELSE
    Bind([manifest \in {validateManifestShape(manifestRaw.value)} |->
        IF manifest.status # "ok" THEN manifest
        ELSE
    Bind([trialSetPaths \in {collectTrialSetPaths(fileIndex)} |->
        IF Len(trialSetPaths) = 0 THEN BundleError("no_trial_sets", <<>>)
        ELSE
    Bind([trialSets \in {ReadTrialSets(trialSetPaths, fileIndex, 1, <<>>)} |->
        IF trialSets.status # "ok" THEN trialSets
        ELSE
    Bind([mediaByInternalPath \in {
            LET IsMedia(entry) == \/ StartsWith(entry.key, MediaImagesDir)
                                  \/ StartsWith(entry.key, MediaAudioDir)
            IN  SelectSeq(fileIndex, IsMedia)} |->
    Bind([presence \in {validateMediaPresence(trialSets.value, mediaByInternalPath)} |->
        IF presence.status # "ok" THEN presence
        ELSE [status |-> "ok",
              bundleRootLabel |-> bundleRootLabel,
              datasetMeta |-> datasetMeta.value,
              manifest |-> manifest.value,
              trialSets |-> trialSets.value,
              mediaByInternalPath |-> mediaByInternalPath]
    ])])])])])])])])

parseBundleFromDirectorySelection(files) ==
    IF Len(files) = 0 THEN BundleError("no_files_selected", <<>>)
    ELSE Bind([bundleRootLabel \in {inferRootLabel(files)} |->
         Bind([fileIndex \in {buildFileIndex(files, bundleRootLabel)} |->
            IF fileIndex.status # "ok" THEN fileIndex
            ELSE ParseIndexed(bundleRootLabel, fileIndex.map)])])

\* --------------------------------------------------------- dataset manifest

LetterChars ==
    {"A", "B", "C", "D", "E", "F", "G", "H", "I", "J", "K", "L", "M", "N", "O", "P", "Q",
     "R", "S", "T", "U", "V", "W", "X", "Y", "Z", "a", "b", "c", "d", "e", "f", "g", "h",
     "i", "j", "k", "l", "m", "n", "o", "p", "q", "r", "s", "t", "u", "v", "w", "x", "y", "z"}

Digits == <<"0", "1", "2", "3", "4", "5", "6", "7", "8", "9">>

DigitValue(c) == (CHOOSE i \in 1..10 : Digits[i] = c) - 1

\* Number.parseInt(digits, 10) of a string of decimal digits
RECURSIVE parseInt(_)
parseInt(digits) ==
    IF digits = <<>> THEN 0
    ELSE 10 * parseInt(SubSeq(digits, 1, Len(digits) - 1)) + DigitValue(digits[Len(digits)])

getRelativePath(file) ==
    IF Len(file.webkitRelativePath) > 0 THEN file.webkitRelativePath ELSE file.name

parseBaseAndExt(fileName) ==
    Bind([dots \in {{i \in 1..Len(fileName) : fileName[i] = "."}} |->
        IF dots = {} THEN [base |-> fileName, extLower |-> <<>>]
        ELSE [base |-> SubSeq(fileName, 1, Max(dots) - 1),
              extLower |-> lowerStr(SubSeq(fileName, Max(dots) + 1, Len(fileName)))]])

\* BASE_PATTERN.exec(base) for /^([A-Za-z]+)(\d+)$/: the two groups, or no match
MatchBase(base) ==
    Bind([n \in {Cardinality({i \in 1..Len(base) : \A j \in 1..i : base[j] \in LetterChars})} |->
        IF n > 0 /\ n < Len(base) /\ \A i \in (n + 1)..Len(base) : base[i] \in Range(Digits)
        THEN [matched |-> TRUE, identity |-> SubSeq(base, 1, n),
              digits |-> SubSeq(base, n + 1, Len(base))]
        ELSE [matched |-> FALSE, identity |-> <<>>, digits |-> <<>>]])

\* arr.sort((a, b) => a.index - b.index): the sort is stable
RECURSIVE SortByIndex(_)
SortByIndex(arr) ==
    IF arr = <<>> THEN <<>>
    ELSE Bind([sorted \in {SortByIndex(SubSeq(arr, 1, Len(arr) - 1))} |->
         Bind([e \in {arr[Len(arr)]} |->
            LET NotAfter(x) == x.index <= e.index
                After(x) == x.index > e.index
            IN  SelectSeq(sorted, NotAfter) \o <<e>> \o SelectSeq(sorted, After)])])

\* targetMap.get(identity) || []
ListOf(map, identity) == IF MapHas(map, identity) THEN MapGet(map, identity) ELSE <<>>

FileErrorOf(kind, file) ==
    [fileName |-> file.name, relativePath |-> getRelativePath(file), kind |-> kind]

\* one pass of the loop of buildDatasetManifest over the files
MediaStep(acc, file, csvIdentities) ==
    Bind([be \in {parseBaseAndExt(file.name)} |->
    Bind([isImage \in {be.extLower = <<"j", "p", "g">> \/ be.extLower = <<"j", "p", "e", "g">>} |->
    Bind([isAudio \in {be.extLower = <<"w", "a", "v">>} |->
        IF ~isImage /\ ~isAudio THEN acc
        ELSE
        Bind([match \in {MatchBase(be.base)} |->
            IF ~match.matched
            THEN [acc EXCEPT !.fileErrors = Append(@, FileErrorOf("naming_convention", file))]
            ELSE
            Bind([idx \in {parseInt(match.digits)} |->
                IF match.identity \notin csvIdentities
                THEN [acc EXCEPT !.warnings =
                        Append(@, [type |-> "media", kind |-> "id_not_in_csv",
                                   identityId |-> match.identity])]
                ELSE
                Bind([list \in {ListOf(IF isImage THEN acc.imageMap ELSE acc.audioMap,
                                       match.identity)} |->
                    IF \E k \in 1..Len(list) : list[k].index = idx
                    THEN [acc EXCEPT !.fileErrors =
                            Append(@, FileErrorOf("duplicate_exemplar_index", file))]
                    ELSE
                    Bind([list1 \in {Append(list, [index |-> idx,
                                                   relativePath |-> getRelativePath(file),
                                                   fileName |-> file.name])} |->
                        IF isImage
                        THEN [acc EXCEPT !.imageMap = MapSet(@, match.identity, list1)]
                        ELSE [acc EXCEPT !.audioMap = MapSet(@, match.identity, list1)]])])])])])])])

RECURSIVE MediaLoop(_, _, _, _)
MediaLoop(acc, files, i, csvIdentities) ==
    IF i > Len(files) THEN acc
    ELSE Bind([acc1 \in {MediaStep(acc, files[i], csvIdentities)} |->
            MediaLoop(acc1, files, i + 1, csvIdentities)])

\* the values of a Set made of a list, in insertion order
RECURSIVE Distinct(_)
Distinct(list) ==
    IF list = <<>> THEN <<>>
    ELSE Bind([front \in {Distinct(SubSeq(list, 1, Len(list) - 1))} |->
            IF list[Len(list)] \in Range(front) THEN front ELSE Append(front, list[Len(list)])])

\* the entry of one identity and the warnings about it
IdentityEntry(id, options, imageExemplars, audioExemplars) ==
    [entry |->
        [id |-> id,
         properties |->
            LET OfId(r) == Trim(r.ID) = id
            IN  [col \in (DOMAIN SelectSeq(options.csvRows, OfId)[1]) \ {"ID"} |->
                    SelectSeq(options.csvRows, OfId)[1][col]],
         nImageExemplars |-> Len(imageExemplars),
         nAudioExemplars |-> Len(audioExemplars),
         hasEnoughImages |-> Len(imageExemplars) >= options.expectedImages,
         hasEnoughAudios |-> Len(audioExemplars) >= options.expectedAudios,
         expectedMinImages |-> options.expectedImages,
         expectedMinAudios |-> options.expectedAudios,
         imageExemplars |-> imageExemplars,
         audioExemplars |-> audioExemplars],
     warnings |->
        (IF Len(imageExemplars) < options.expectedImages
         THEN <<[type |-> "identity", kind |-> "missing_images", identityId |-> id]>>
         ELSE <<>>)
        \o (IF Len(audioExemplars) < options.expectedAudios
            THEN <<[type |-> "identity", kind |-> "missing_audios", identityId |-> id]>>
            ELSE <<>>)
        \o (IF Len(imageExemplars) = 0 /\ Len(audioExemplars) = 0
            THEN <<[type |-> "identity", kind |-> "no_media", identityId |-> id]>>
            ELSE <<>>)]

buildDatasetManifest(options) ==
    Bind([ids \in {Distinct([i \in 1..Len(options.csvRows) |-> Trim(options.csvRows[i].ID)])} |->
    Bind([media \in {MediaLoop([imageMap |-> <<>>, audioMap |-> <<>>, warnings |-> <<>>,
                                fileErrors |-> <<>>], options.files, 1, Range(ids))} |->
    Bind([sortedIds \in {SortStrings(ids)} |->
    Bind([made \in {[i \in 1..Len(sortedIds) |->
                        IdentityEntry(sortedIds[i], options,
                                      SortByIndex(ListOf(media.imageMap, sortedIds[i])),
                                      SortByIndex(ListOf(media.audioMap, sortedIds[i])))]} |->
        [manifest |->
            [meta |-> [dataDirLabel |-> options.dataDirLabel,
                       expected_n_images |-> options.expectedImages,
                       expected_n_audios |-> options.expectedAudios],
             identities |-> [i \in 1..Len(made) |-> made[i].entry]],
         warnings |-> media.warnings \o Concat([i \in 1..Len(made) |-> made[i].warnings]),
         fileErrors |-> media.fileErrors]])])])])

\* Number(e?.index) || 0: a raw index is absent, <<>>, or one number
NumberOrZero(raw) == IF raw = <<>> THEN 0 ELSE raw[1]

\* the exemplars of one entry of a prepared JSON file
JsonExemplars(raw) ==
    SortByIndex([k \in 1..Len(raw) |->
        [index |-> NumberOrZero(raw[k].index),
         relativePath |-> raw[k].relativePath,
         fileName |-> raw[k].fileName]])

JsonEntry(r) ==
    Bind([images \in {JsonExemplars(r.imageExemplars)} |->
    Bind([audios \in {JsonExemplars(r.audioExemplars)} |->
        [id |-> Trim(r.id),
         properties |-> r.properties,
         nImageExemplars |-> Len(images),
         nAudioExemplars |-> Len(audios),
         hasEnoughImages |-> r.hasEnoughImages,
         hasEnoughAudios |-> r.hasEnoughAudios,
         expectedMinImages |-> r.expectedMinImages,
         expectedMinAudios |-> r.expectedMinAudios,
         imageExemplars |-> images,
         audioExemplars |-> audios]])])

\* obj is what JSON.parse returned
parsePreparedManifestFromJsonFile(obj) ==
    LET HasId(r) == Trim(r.id) # <<>>
    IN  Bind([src \in {SelectSeq(obj.identities, HasId)} |->
            [meta |-> [dataDirLabel |-> IF obj.meta.dataDirLabel \in {<<>>, <<"N", "A">>}
                                        THEN <<"d", "a", "t", "a", "s", "e", "t">>
                                        ELSE obj.meta.dataDirLabel,
                       expected_n_images |-> obj.meta.expected_n_images,
                       expected_n_audios |-> obj.meta.expected_n_audios],
             identities |-> [i \in 1..Len(src) |-> JsonEntry(src[i])]]])

parseIndexFromPath(p) ==
    Bind([match \in {MatchBase(parseBaseAndExt(fileNameFromPath(p)).base)} |->
        IF match.matched THEN <<parseInt(match.digits)>> ELSE <<>>])

\* pathsStr.split('|').map(trim).filter(non-empty), and the parts whose file
\* name gives an index, sorted by index
parseExemplarsFromPaths(pathsStr) ==
    LET NonEmpty(x) == Len(x) > 0
        Indexed(x) == parseIndexFromPath(x) # <<>>
    IN  IF pathsStr = <<>> THEN <<>>
        ELSE
        Bind([split \in {Split(pathsStr, "|")} |->
        Bind([parts \in {SelectSeq([k \in 1..Len(split) |-> Trim(split[k])], NonEmpty)} |->
        Bind([kept \in {SelectSeq(parts, Indexed)} |->
            SortByIndex([k \in 1..Len(kept) |->
                [index |-> parseIndexFromPath(kept[k])[1],
                 relativePath |-> kept[k],
                 fileName |-> fileNameFromPath(kept[k])]])])])])

CsvEntry(r) ==
    Bind([images \in {parseExemplarsFromPaths(r.image_paths)} |->
    Bind([audios \in {parseExemplarsFromPaths(r.audio_paths)} |->
        [id |-> Trim(r.ID),
         properties |-> <<>>,
         nImageExemplars |-> Len(images),
         nAudioExemplars |-> Len(audios),
         hasEnoughImages |-> r.has_enough_images,
         hasEnoughAudios |-> r.has_enough_audios,
         expectedMinImages |-> r.expected_min_images,
         expectedMinAudios |-> r.expected_min_audios,
         imageExemplars |-> images,
         audioExemplars |-> audios]])])

\* rows is what Papa.parse returned for the nine base columns
parsePreparedManifestFromCsvFile(rows) ==
    LET HasId(r) == Trim(r.ID) # <<>>
    IN  Bind([src \in {SelectSeq(rows, HasId)} |->
            [meta |-> [dataDirLabel |-> <<"p", "r", "e", "p", "a", "r", "e", "d", "_",
                                          "d", "a", "t", "a", "s", "e", "t">>,
                       expected_n_images |-> 0,
                       expected_n_audios |-> 0],
             identities |-> [i \in 1..Len(src) |-> CsvEntry(src[i])]]])

\* ------------------------------------------------------------------ inputs

PathChars == {"a", ".", "/", "\\"}

ExampleSafePath ==
    <<"m", "e", "d", "i", "a", "/", "i", "m", "a", "g", "e", "s", "/",
      "A", "1", ".", "j", "p", "g">>

ExampleUnsafePaths ==
    {<<".", ".", "/", "x">>, <<"/", "x">>, <<"a", "\\", "b">>, <<>>}

PathInputs == SeqsUpTo(PathChars, MaxPathLen) \cup {ExampleSafePath} \cup ExampleUnsafePaths

SeedChars == {" ", "s"}
SeedStrings == SeqsUpTo(SeedChars, MaxSeedLen)
SeedSubjects == {<<"A">>, <<"B">>}

\* Record<string, string>: a string for some of the subjects
SeedMaps == UNION {[D -> SeedStrings] : D \in SUBSET SeedSubjects}

SeedPolicies ==
    {buildSeedPolicyGlobal(g, o) : g \in SeedStrings, o \in SeedMaps}
        \cup {buildSeedPolicyPerSubject(m) : m \in SeedMaps}

Availabilities ==
    [partner : 0..1, familiarNonPartner : 0..MaxAvail, unfamiliar : 0..MaxAvail]

CountsInputs ==
    [total : 1..MaxTotal, ff : 0..FracDen, pf : 0..FracDen, available : Availabilities]

NoCounts == [nPartner |-> 0, nFamiliarNonPartner |-> 0, nUnfamiliar |-> 0, warnings |-> <<"pending">>]

\* manifests for the generator: subject A with partner B, and C, D, E of
\* which E has another sex; exemplar lists are sorted by index, file names
\* follow <ID><index>.<ext>
ExemplarsOf(id, n, ext) ==
    [k \in 1..n |->
        [index |-> k,
         relativePath |-> <<"d", "/">> \o id \o <<DigitChar(k)>> \o ext,
         fileName |-> id \o <<DigitChar(k)>> \o ext]]

JPG == <<".", "j">>
WAV == <<".", "w">>

IdentityOf(id, partnerId, sex, familiarity, media) ==
    [id |-> id,
     properties |-> [partner_ID |-> partnerId, partnerId |-> <<>>, partner |-> <<>>,
                     sex |-> sex, familiarity |-> familiarity],
     imageExemplars |-> ExemplarsOf(id, media[1], JPG),
     audioExemplars |-> ExemplarsOf(id, media[2], WAV)]

ManifestOf(shape) ==
    [meta |-> [dataDirLabel |-> <<"d">>],
     identities |->
        << IdentityOf(<<"A">>, <<"B">>, <<"M">>, <<>>, <<1, 1>>),
           IdentityOf(<<"B">>, <<"A">>, <<"F">>, shape.bFam, shape.b),
           IdentityOf(<<"C">>, <<>>, <<"f">>, FAMILIAR, shape.c),
           IdentityOf(<<"D">>, <<>>, <<"F">>, UNFAMILIAR, shape.d),
           IdentityOf(<<"E">>, <<>>, <<"m">>, FAMILIAR, <<1, 1>>) >>]

Full == <<MaxExemplars, MaxExemplars>>

Shape(b, c, d, bFam) == [b |-> b, c |-> c, d |-> d, bFam |-> bFam]

ManifestShapes ==
    { Shape(Full, Full, Full, FAMILIAR),          \* every category available
      Shape(Full, <<0, 0>>, Full, FAMILIAR),      \* no familiar non-partner media
      Shape(Full, Full, <<1, 0>>, FAMILIAR),      \* no unfamiliar media
      Shape(Full, <<0, 1>>, <<0, 0>>, FAMILIAR),  \* only the partner has media
      Shape(Full, <<1, MaxExemplars>>, <<MaxExemplars, 1>>, FAMILIAR),
      Shape(Full, Full, Full, UNFAMILIAR),        \* the partner is listed unfamiliar
      Shape(<<0, 1>>, Full, Full, FAMILIAR) }     \* the partner has no image

GenTotals == {1, MaxTrials - 1, MaxTrials}

\* familiarFraction and partnerFractionWithinFamiliar, as numerators over
\* FracDen: all unfamiliar, a mix, all familiar non-partner, all partner,
\* partner and unfamiliar
GenFractions ==
    { <<0, 0>>, <<FracDen \div 2, FracDen \div 2>>, <<FracDen, 0>>,
      <<FracDen, FracDen>>, <<FracDen \div 2, FracDen>> }

GenConfigs ==
    {[totalTrials |-> n,
      familiarFraction |-> fr[1],
      partnerFractionWithinFamiliar |-> fr[2],
      balanceSides |-> bs,
      avoidRepeatPairings |-> ar,
      seed |-> <<"s", "1">>] :
        n \in GenTotals, fr \in GenFractions, bs \in BOOLEAN, ar \in BOOLEAN}

\* the scenario of the specification: subject A, partner B, familiar C,
\* unfamiliar D, totalTrials 10 and both fractions one half
ScenarioInputs ==
    {[manifest |-> ManifestOf(Shape(Full, Full, Full, FAMILIAR)),
      subjectId |-> <<"A">>,
      config |-> [totalTrials |-> 10,
                  familiarFraction |-> FracDen \div 2,
                  partnerFractionWithinFamiliar |-> FracDen \div 2,
                  balanceSides |-> TRUE,
                  avoidRepeatPairings |-> TRUE,
                  seed |-> <<"s", "1">>]]}

\* manifests on which generation must refuse: the subject without a partner
\* id (absent, or blank under the key partner), the partner id under each of
\* the three keys, a partner that is not listed, a partner without sex, and a
\* partner without audio; C and D are there with media
IdentityWithKeys(id, keys, sex, familiarity, media) ==
    [id |-> id,
     properties |-> [partner_ID |-> keys[1], partnerId |-> keys[2], partner |-> keys[3],
                     sex |-> sex, familiarity |-> familiarity],
     imageExemplars |-> ExemplarsOf(id, media[1], JPG),
     audioExemplars |-> ExemplarsOf(id, media[2], WAV)]

PartnerKeys ==
    { << <<>>, <<>>, <<>> >>,              \* no partner id at all
      << <<>>, <<>>, <<" ">> >>,           \* a blank one
      << <<"Z">>, <<>>, <<>> >>,           \* a partner that is not listed
      << <<"B">>, <<>>, <<>> >>,
      << <<>>, <<"B">>, <<>> >>,
      << <<>>, <<>>, <<" ", "B">> >> }

PartnerVariants ==
    { [sex |-> <<"F">>, media |-> <<1, 1>>],
      [sex |-> <<>>, media |-> <<1, 1>>],
      [sex |-> <<"F">>, media |-> <<1, 0>>],
      [sex |-> <<"F">>, media |-> <<0, 1>>] }

PreconditionManifest(keys, pv) ==
    [meta |-> [dataDirLabel |-> <<"d">>],
     identities |->
        << IdentityWithKeys(<<"A">>, keys, <<"M">>, <<>>, <<1, 1>>),
           IdentityWithKeys(<<"B">>, << <<"A">>, <<>>, <<>> >>, pv.sex, FAMILIAR, pv.media),
           IdentityWithKeys(<<"C">>, << <<>>, <<>>, <<>> >>, <<"f">>, FAMILIAR, <<1, 1>>),
           IdentityWithKeys(<<"D">>, << <<>>, <<>>, <<>> >>, <<"F">>, UNFAMILIAR, <<1, 1>>) >>]

PreconditionInputs ==
    {[manifest |-> PreconditionManifest(keys, pv),
      subjectId |-> <<"A">>,
      config |-> [totalTrials |-> 2,
                  familiarFraction |-> FracDen \div 2,
                  partnerFractionWithinFamiliar |-> FracDen \div 2,
                  balanceSides |-> TRUE,
                  avoidRepeatPairings |-> TRUE,
                  seed |-> <<"s", "1">>]] :
        keys \in PartnerKeys, pv \in PartnerVariants}

GenInputs ==
    {[manifest |-> ManifestOf(sh), subjectId |-> sid, config |-> cfg] :
        sh \in ManifestShapes, sid \in {<<"A">>}, cfg \in GenConfigs}
        \cup {[manifest |-> ManifestOf(Shape(Full, Full, Full, FAMILIAR)),
                subjectId |-> <<"x">>, config |-> cfg] : cfg \in GenConfigs}
        \cup ScenarioInputs
        \cup PreconditionInputs

\* inputs of the bundle pipeline: a manifest of A and B with one image and
\* one audio each, of A alone, and of A and an entry without id
BundleManifests ==
    { [meta |-> [dataDirLabel |-> <<"d">>], identities |-> ids] :
        ids \in { << IdentityOf(<<"A">>, <<"B">>, <<"M">>, <<>>, <<1, 1>>),
                     IdentityOf(<<"B">>, <<"A">>, <<"F">>, FAMILIAR, <<1, 1>>) >>,
                  << IdentityOf(<<"A">>, <<"B">>, <<"M">>, <<>>, <<1, 1>>) >>,
                  << IdentityOf(<<"A">>, <<"B">>, <<"M">>, <<>>, <<1, 1>>),
                     IdentityOf(<<>>, <<>>, <<>>, <<>>, <<0, 0>>) >> } }

File(name, id) == [name |-> name, id |-> id]

A1J == <<"A", "1">> \o JPG
A1W == <<"A", "1">> \o WAV
B1J == <<"B", "1">> \o JPG
B1W == <<"B", "1">> \o WAV
C1J == <<"C", "1">> \o JPG

AllFiles == <<File(A1J, 1), File(A1W, 2), File(B1J, 3), File(B1W, 4)>>

\* the raw media collection: every name once, B1.j twice, B1.j missing, and
\* an unlisted name twice
BundleFileLists ==
    { AllFiles,
      AllFiles \o <<File(B1J, 5)>>,
      <<File(A1J, 1), File(A1W, 2), File(B1W, 4)>>,
      AllFiles \o <<File(C1J, 5), File(C1J, 6)>> }

TrialOf(n, audio, left, right) ==
    [trialNumber |-> n, audio |-> [path |-> audio],
     leftImage |-> [path |-> left], rightImage |-> [path |-> right]]

SourceDir == <<"d", "/">>

\* trial lists: none, canonical paths, the paths of the prepared manifest as
\* generateTrials leaves them, a traversal, and a name the manifest does not list
BundleTrialLists ==
    { <<>>,
      << TrialOf(1, MediaAudioDir \o A1W, MediaImagesDir \o A1J, MediaImagesDir \o B1J) >>,
      << TrialOf(1, MediaAudioDir \o A1W, MediaImagesDir \o A1J, MediaImagesDir \o B1J),
         TrialOf(2, MediaAudioDir \o B1W, MediaImagesDir \o B1J, MediaImagesDir \o A1J) >>,
      << TrialOf(1, SourceDir \o A1W, SourceDir \o A1J, SourceDir \o B1J) >>,
      << TrialOf(1, MediaAudioDir \o A1W, <<".", ".", "/">> \o A1J, MediaImagesDir \o B1J) >>,
      << TrialOf(1, MediaAudioDir \o A1W, MediaImagesDir \o C1J, MediaImagesDir \o B1J) >> }

TrialSetOf(subjectId, trials) ==
    [meta |-> [subjectId |-> subjectId, totalTrials |-> Len(trials)], trials |-> trials]

Entry(k, v) == [key |-> k, value |-> v]

\* Record<string, TrialSet>: one subject, one subject under another's key,
\* and two subjects in either insertion order
BundleTrialSets ==
    { <<Entry(<<"A">>, TrialSetOf(<<"A">>, l))>> : l \in BundleTrialLists }
        \cup { <<Entry(<<"A">>, TrialSetOf(<<"B">>, l))>> :
                    l \in {t \in BundleTrialLists : Len(t) = 2} }
        \cup { <<Entry(s[1], TrialSetOf(s[1], l1)), Entry(s[2], TrialSetOf(s[2], l2))>> :
                    s \in {<<<<"A">>, <<"B">>>>, <<<<"B">>, <<"A">>>>},
                    l1 \in {t \in BundleTrialLists : t = <<>> \/ t[1].audio.path[1] = "m"},
                    l2 \in {t \in BundleTrialLists : t = <<>> \/ t[1].audio.path[1] = "m"} }

\* datasetId and sourceDataDirLabel
BundleLabels ==
    { <<<<"d">>, <<"d">>>>, <<<<>>, <<"d">>>>, <<<<" ">>, <<"d">>>>, <<<<"d">>, <<>>>> }

BundleInputs ==
    { [datasetId |-> lb[1], sourceDataDirLabel |-> lb[2], manifest |-> m, trialSets |-> ts,
       seedPolicy |-> buildSeedPolicyGlobal(<<"s">>, <<>>),
       generatorConfig |-> [totalTrials |-> 2, familiarFraction |-> FracDen,
                            partnerFractionWithinFamiliar |-> FracDen,
                            balanceSides |-> TRUE, avoidRepeatPairings |-> TRUE],
       datasetFiles |-> fs] :
        lb \in BundleLabels, m \in BundleManifests, ts \in BundleTrialSets,
        fs \in BundleFileLists }

\* the name of the folder the bundle is laid out in
RootLabel == <<"r">>

NotRun == [status |-> "pending"]

\* folders handed to the parser: the two documents at the root, one of them
\* absent, or dataset_meta.json one level down
ParseMeta ==
    [dataset_id |-> <<"d">>, created_at |-> toISOString(0), source_data_dir_label |-> <<"d">>,
     subjects |-> << <<"A">> >>, seed_policy |-> buildSeedPolicyGlobal(<<"s">>, <<>>),
     generator_config |-> [totalTrials |-> 1],
     counts |-> [overallTrials |-> 1, perSubjectTrials |-> <<Entry(<<"A">>, 1)>>]]

ParseManifest ==
    [meta |-> [dataDirLabel |-> <<"d">>],
     identities |-> << IdentityOf(<<"A">>, <<"B">>, <<"M">>, <<>>, <<1, 1>>) >>]

ParseDocs ==
    { << Entry(DatasetMetaJson, JsonFile(ParseMeta)), Entry(ManifestJson, JsonFile(ParseManifest)) >>,
      << Entry(ManifestJson, JsonFile(ParseManifest)) >>,
      << Entry(DatasetMetaJson, JsonFile(ParseMeta)) >>,
      << Entry(<<"x", "/">> \o DatasetMetaJson, JsonFile(ParseMeta)),
         Entry(ManifestJson, JsonFile(ParseManifest)) >> }

TrialsJsonOf(folder, subjectId, trials) ==
    Entry(TrialSetsDir \o folder \o Slash \o TrialsJson, JsonFile(TrialSetOf(subjectId, trials)))

GoodTrialA == TrialOf(1, MediaAudioDir \o A1W, MediaImagesDir \o A1J, MediaImagesDir \o B1J)
GoodTrialB == TrialOf(1, MediaAudioDir \o B1W, MediaImagesDir \o B1J, MediaImagesDir \o A1J)

\* the trials.json files: none, one subject, a folder that is not the
\* subject of its file, two subjects, a path outside media/, a trial without
\* audio path, an image no file has, a trials.json one level too deep, and
\* a missing image next to a folder mismatch
ParseTrialFiles ==
    { <<>>,
      << TrialsJsonOf(<<"A">>, <<"A">>, <<GoodTrialA>>) >>,
      << TrialsJsonOf(<<"A">>, <<"B">>, <<GoodTrialA>>) >>,
      << TrialsJsonOf(<<"B">>, <<"B">>, <<GoodTrialB>>),
         TrialsJsonOf(<<"A">>, <<"A">>, <<GoodTrialA, GoodTrialB>>) >>,
      << TrialsJsonOf(<<"A">>, <<"A">>,
            <<TrialOf(1, SourceDir \o A1W, MediaImagesDir \o A1J, MediaImagesDir \o B1J)>>) >>,
      << TrialsJsonOf(<<"A">>, <<"A">>,
            <<TrialOf(1, <<>>, MediaImagesDir \o A1J, MediaImagesDir \o B1J)>>) >>,
      << TrialsJsonOf(<<"A">>, <<"A">>, <<GoodTrialA>>),
         TrialsJsonOf(<<"B">>, <<"B">>,
            <<TrialOf(1, MediaAudioDir \o B1W, MediaImagesDir \o C1J, MediaImagesDir \o A1J)>>) >>,
      << TrialsJsonOf(<<"A", "/", "x">>, <<"A">>, <<GoodTrialA>>) >>,
      << TrialsJsonOf(<<"A">>, <<"A">>,
            <<TrialOf(1, MediaAudioDir \o A1W, MediaImagesDir \o C1J, MediaImagesDir \o B1J)>>),
         TrialsJsonOf(<<"B">>, <<"A">>, <<GoodTrialB>>) >> }

MediaEntry(dir, f) == Entry(dir \o f.name, MediaFile(f))

AllMedia ==
    << MediaEntry(MediaImagesDir, File(A1J, 1)), MediaEntry(MediaAudioDir, File(A1W, 2)),
       MediaEntry(MediaImagesDir, File(B1J, 3)), MediaEntry(MediaAudioDir, File(B1W, 4)) >>

\* the media files: all four, one audio or one image absent, and all four
\* with the source folder next to media/
ParseMedia ==
    { AllMedia,
      <<AllMedia[1], AllMedia[3], AllMedia[4]>>,
      <<AllMedia[1], AllMedia[2], AllMedia[4]>>,
      AllMedia \o <<MediaEntry(SourceDir, File(A1W, 2))>> }

ParseSelections ==
    { DirectorySelection(docs \o sets \o media, RootLabel) :
        docs \in ParseDocs, sets \in ParseTrialFiles, media \in ParseMedia }

\* the sequences over S of length at most n in which nothing repeats
ListsWithoutRepeat(S, n) == {l \in SeqsUpTo(S, n) : Cardinality(Range(l)) = Len(l)}

JpgExt == <<".", "j", "p", "g">>
WavExt == <<".", "w", "a", "v">>

\* file names of a dataset folder: images 1 and 2 of A, index 1 again as 01
\* with an upper-case extension and as jpeg, an audio of A, an image of B and
\* one of C, a name without index and a text file
FolderNames ==
    { <<"A", "1">> \o JpgExt, <<"A", "2">> \o JpgExt, <<"A", "0", "1", ".", "J", "P", "G">>,
      <<"A", "1", ".", "j", "p", "e", "g">>, <<"A", "1">> \o WavExt, <<"B", "1">> \o JpgExt,
      <<"C", "1">> \o JpgExt, <<"A">> \o JpgExt, <<"n", ".", "t", "x", "t">> }

FolderFile(name) == [webkitRelativePath |-> SourceDir \o name, name |-> name]

CsvRow(id, sex) == [ID |-> id, sex |-> sex]

FolderSources ==
    { [kind |-> "folder",
       options |-> [csvRows |-> rows, dataDirLabel |-> <<"d">>,
                    files |-> [i \in 1..Len(names) |-> FolderFile(names[i])],
                    expectedImages |-> 1, expectedAudios |-> 1]] :
        names \in ListsWithoutRepeat(FolderNames, MaxFiles),
        rows \in { << CsvRow(<<"A">>, <<"M">>) >>,
                   << CsvRow(<<"B">>, <<"F">>), CsvRow(<<"A">>, <<"M">>),
                      CsvRow(<<"A">>, <<>>) >> } }

\* the entries of a prepared JSON file: exemplars whose index is absent, 1 or 2
RawExemplar(id, k, index, ext) ==
    [index |-> index,
     relativePath |-> SourceDir \o id \o <<DigitChar(k)>> \o ext,
     fileName |-> id \o <<DigitChar(k)>> \o ext]

RawEntry(id, images, audios) ==
    [id |-> id, properties |-> [sex |-> <<"M">>],
     hasEnoughImages |-> TRUE, hasEnoughAudios |-> TRUE,
     expectedMinImages |-> 1, expectedMinAudios |-> 1,
     imageExemplars |-> images, audioExemplars |-> audios]

JsonSources ==
    { [kind |-> "json",
       obj |-> [meta |-> [dataDirLabel |-> <<"d">>, expected_n_images |-> 1,
                          expected_n_audios |-> 1],
                identities |->
                    << RawEntry(<<"A">>, [k \in 1..Len(ix) |-> RawExemplar(<<"A">>, k, ix[k], JpgExt)],
                                audios) >> \o more]] :
        ix \in SeqsUpTo({<<>>, <<1>>, <<2>>}, MaxFiles),
        audios \in { <<>>, << RawExemplar(<<"A">>, 1, <<2>>, WavExt),
                              RawExemplar(<<"A">>, 2, <<1>>, WavExt) >> },
        more \in { <<>>, << RawEntry(<<" ">>, <<>>, <<>>) >> } }

\* the rows of a prepared CSV file: image_paths joins parts with '|'
RECURSIVE JoinPaths(_)
JoinPaths(parts) ==
    IF parts = <<>> THEN <<>>
    ELSE IF Len(parts) = 1 THEN parts[1]
    ELSE parts[1] \o <<"|">> \o JoinPaths(Tail(parts))

PathParts ==
    { SourceDir \o <<"A", "1">> \o JpgExt, <<"e", "/">> \o <<"A", "1">> \o JpgExt,
      <<" ">> \o SourceDir \o <<"A", "2">> \o JpgExt, <<" ">>, <<"j", "u", "n", "k">> }

CsvSources ==
    { [kind |-> "csv",
       rows |-> << [ID |-> <<"A">>, image_paths |-> JoinPaths(parts),
                    audio_paths |-> SourceDir \o <<"A", "1">> \o WavExt,
                    has_enough_images |-> TRUE, has_enough_audios |-> TRUE,
                    expected_min_images |-> 1, expected_min_audios |-> 1] >>] :
        parts \in SeqsUpTo(PathParts, MaxFiles) }

ManifestSources == FolderSources \cup JsonSources \cup CsvSources

\* inputs of a multi-subject run on the manifests of the generator: A and B
\* are each other's partner, C has no partner and x is not in the manifest
MultiSubjectLists ==
    { << <<"A">> >>, << <<"A">>, <<"B">> >>, << <<"B">>, <<"A">> >>,
      << <<"A">>, <<"C">> >>, << <<"C">>, <<"A">> >>,
      << <<"x">>, <<"A">> >>, << <<"A">>, <<"x">> >>, << <<"C">> >> }

MultiShapes ==
    { Shape(Full, Full, Full, FAMILIAR),
      Shape(Full, <<0, 1>>, <<0, 0>>, FAMILIAR),
      Shape(<<0, 1>>, Full, Full, FAMILIAR) }

MultiBaseConfigs ==
    {[totalTrials |-> n,
      familiarFraction |-> fr,
      partnerFractionWithinFamiliar |-> FracDen \div 2,
      balanceSides |-> TRUE,
      avoidRepeatPairings |-> TRUE] :
        n \in {1, MaxTrials}, fr \in {0, FracDen \div 2}}

MultiSeedPolicies ==
    { buildSeedPolicyGlobal(<<"s">>, <<>>),
      buildSeedPolicyPerSubject([k \in {<<"A">>} |-> <<"s", "1">>]) }

MultiInputs ==
    {[manifest |-> ManifestOf(sh), selectedSubjectIds |-> ids, baseConfig |-> cfg,
      seedPolicy |-> sp] :
        sh \in MultiShapes, ids \in MultiSubjectLists, cfg \in MultiBaseConfigs,
        sp \in MultiSeedPolicies}

\* ---------------------------------------------------- build wizard: handlers

\* null, for a state field that holds a value or nothing
Null == [null |-> TRUE]

NoFolderSelected == <<"N", "o", " ", "f", "o", "l", "d", "e", "r", " ", "s", "e", "l", "e", "c", "t", "e", "d">>
SelectedFolder == <<"S", "e", "l", "e", "c", "t", "e", "d", " ", "f", "o", "l", "d", "e", "r">>
DataInfoCsv == <<"d", "a", "t", "a", "_", "i", "n", "f", "o", ".", "c", "s", "v">>

\* the label shown for a selection: the first segment of the first file's path
inferFolderLabel(files) ==
    IF Len(files) = 0 THEN NoFolderSelected
    ELSE Bind([rel \in {files[1].webkitRelativePath} |->
            IF rel = <<>> \/ "/" \notin Range(rel)
            THEN (IF rel # <<>> THEN rel ELSE SelectedFolder)
            ELSE Split(rel, "/")[1]])

chooseDefaultDatasetId(sourceLabel) ==
    IF Len(Trim(sourceLabel)) > 0 THEN Trim(sourceLabel) ELSE <<"d", "a", "t", "a", "s", "e", "t">>

\* String(v ?? '').trim().toLowerCase() of a property; an absent or empty
\* cell is null in the manifest
PropertyLower(entry, key) ==
    IF key \in DOMAIN entry.properties THEN lowerStr(Trim(entry.properties[key])) ELSE <<>>

isFocal(entry) == PropertyLower(entry, "focal") \in { <<"1">>, <<"t", "r", "u", "e">> }

isFocalIdentity(entry) == PropertyLower(entry, "focal") \in { <<"1">>, <<"t", "r", "u", "e">> }

listDefaultSubjectIds(manifest) ==
    Bind([focal \in {Ids(SelectSeq(manifest.identities, isFocalIdentity))} |->
        IF Len(focal) > 0 THEN focal ELSE Ids(manifest.identities)])

POSSIBLE_ID_COLS == <<"ID", "Id", "id", "Animal", "animal", "AnimalID", "animal_id">>

\* parseDataInfoCsv on what Papa.parse read of the file: its errors, its
\* rows and its header fields.  The outcome is what the promise settles with.
parseDataInfoCsv(file) ==
    Bind([results \in {file.content} |->
        IF Len(results.errors) > 0 THEN Err("csv_parse_errors", results.errors)
        ELSE IF Len(results.data) = 0 THEN Err("csv_empty", <<>>)
        ELSE
        Bind([idCols \in {{i \in 1..Len(POSSIBLE_ID_COLS) : POSSIBLE_ID_COLS[i] \in results.fields}} |->
            IF idCols = {} THEN Err("csv_no_id_column", <<>>)
            ELSE
            Bind([idCol \in {POSSIBLE_ID_COLS[CHOOSE i \in idCols : \A j \in idCols : i <= j]} |->
                Ok([rows |-> [k \in 1..Len(results.data) |->
                                [c \in (results.fields \ {idCol}) \cup {"ID"} |->
                                    IF c = "ID" THEN Trim(results.data[k][idCol])
                                    ELSE results.data[k][c]]],
                    infoColumns |-> results.fields \ {idCol}])])])])

\* the first of three properties that is not null, trimmed
PartnerIdProperty(subject) ==
    Bind([p \in {subject.properties} |->
        Trim(IF "partner_ID" \in DOMAIN p /\ p.partner_ID # <<>> THEN p.partner_ID
             ELSE IF "partnerId" \in DOMAIN p /\ p.partnerId # <<>> THEN p.partnerId
             ELSE IF "partner" \in DOMAIN p THEN p.partner ELSE <<>>)])

\* the errors of computePoolSummary, each with the subject it is about
computePoolSummaryErrors(manifest, subjectId) ==
    Bind([si \in {identityById(manifest, subjectId)} |->
        IF si = 0 THEN << [error |-> "subject_not_found", subjectId |-> subjectId] >>
        ELSE
        Bind([partnerId \in {PartnerIdProperty(manifest.identities[si])} |->
        Bind([pi \in {identityById(manifest, partnerId)} |->
        Bind([partnerSex \in {IF pi = 0 THEN <<>>
                              ELSE PropertyLower(manifest.identities[pi], "sex")} |->
            (IF partnerId = <<>>
             THEN << [error |-> "missing_partner_id", subjectId |-> subjectId] >> ELSE <<>>)
            \o (IF pi = 0
                THEN << [error |-> "partner_not_found", subjectId |-> subjectId] >> ELSE <<>>)
            \o (IF partnerSex = <<>>
                THEN << [error |-> "partner_no_sex", subjectId |-> subjectId] >> ELSE <<>>)
        ])])])])

subjectSelectionStrictErrors(manifest, selectedSubjectIds) ==
    IF manifest = Null THEN <<>>
    ELSE Concat([i \in 1..Len(selectedSubjectIds) |->
                    computePoolSummaryErrors(manifest, selectedSubjectIds[i])])

\* the two memos of BundleTab, computed of the state at hand
baseConfig(t) ==
    [totalTrials |-> t.totalTrials,
     familiarFraction |-> t.familiarFraction,
     partnerFractionWithinFamiliar |-> t.partnerFractionWithinFamiliar,
     balanceSides |-> t.balanceSides,
     avoidRepeatPairings |-> t.avoidRepeatPairings]

seedPolicy(t) == buildSeedPolicyGlobal(t.globalSeed, t.perSubjectOverrides)

canGoToStep(t, target) ==
    IF t.mode # "build" THEN FALSE
    ELSE IF target = 1 THEN TRUE
    ELSE IF target = 2
         THEN t.manifest # Null /\ Len(t.datasetFileErrors) = 0 /\ t.csvError = ""
    ELSE IF target = 3 THEN Len(t.selectedSubjectIds) > 0 /\ t.manifest # Null
    ELSE IF target \in {4, 5} THEN Len(t.trialSets) > 0 /\ Len(t.generationErrors) = 0
    ELSE FALSE

\* the state resetBuildState leaves: the dataset, the selection and the
\* generated trial sets are dropped, the tuning fields are kept
resetBuildState(t) ==
    [t EXCEPT !.datasetFiles = <<>>,
              !.datasetFolderLabel = NoFolderSelected,
              !.csvError = "",
              !.csvRows = Null,
              !.manifest = Null,
              !.datasetWarnings = <<>>,
              !.datasetFileErrors = <<>>,
              !.selectedSubjectIds = <<>>,
              !.datasetId = <<>>,
              !.trialSets = <<>>,
              !.generationErrors = <<>>,
              !.generationWarnings = <<>>,
              !.step = 1]

\* the first file named data_info.csv directly inside the selected folder
FindDataInfoFile(files) ==
    Bind([hits \in {{i \in 1..Len(files) :
                        /\ Len(Split(getRelativePath(files[i]), "/")) = 2
                        /\ files[i].name = DataInfoCsv}} |->
        IF hits = {} THEN Null ELSE files[CHOOSE i \in hits : \A j \in hits : i <= j]])

\* onDatasetFolderChange up to its await: the state it leaves and, when it
\* suspends, the files and label its continuation holds
FolderChangeStart(t, filesList) ==
    Bind([reset \in {resetBuildState(t)} |->
        IF Len(filesList) = 0 THEN [tab |-> reset, suspended |-> <<>>]
        ELSE
        Bind([label \in {inferFolderLabel(filesList)} |->
        Bind([set \in {[reset EXCEPT !.datasetFiles = filesList,
                                     !.datasetFolderLabel = label,
                                     !.datasetId = chooseDefaultDatasetId(label)]} |->
        Bind([dataInfoFile \in {FindDataInfoFile(filesList)} |->
            IF dataInfoFile = Null
            THEN [tab |-> [set EXCEPT !.csvError = "data_info_csv_required"],
                  suspended |-> <<>>]
            ELSE [tab |-> set,
                  suspended |-> << [files |-> filesList, label |-> label,
                                    dataInfoFile |-> dataInfoFile] >>]
        ])])])])

\* the rest of onDatasetFolderChange, run when the promise of
\* parseDataInfoCsv settles: on the files and label of its own call
FolderChangeResume(t, call) ==
    Bind([parsed \in {parseDataInfoCsv(call.dataInfoFile)} |->
        IF parsed.status # "ok" THEN [t EXCEPT !.csvError = parsed.error]
        ELSE
        Bind([result \in {buildDatasetManifest([csvRows |-> parsed.value.rows,
                                                dataDirLabel |-> call.label,
                                                files |-> call.files,
                                                expectedImages |-> 1,
                                                expectedAudios |-> 1])} |->
        Bind([defaults \in {LET Focal(id) ==
                                    identityById(result.manifest, id) # 0
                                    /\ isFocal(result.manifest.identities[
                                                   identityById(result.manifest, id)])
                            IN  SelectSeq(listDefaultSubjectIds(result.manifest), Focal)} |->
            [t EXCEPT !.csvRows = parsed.value.rows,
                      !.manifest = result.manifest,
                      !.datasetWarnings = result.warnings,
                      !.datasetFileErrors = result.fileErrors,
                      !.selectedSubjectIds =
                            IF Len(defaults) > 0 THEN defaults
                            ELSE listDefaultSubjectIds(result.manifest),
                      !.step = 2]
        ])])])

\* the selection after onToggleSubject
ToggleSubject(prev, subjectId) ==
    LET Other(x) == x # subjectId
    IN  SortStrings(IF subjectId \in Range(prev) THEN SelectSeq(prev, Other)
                    ELSE Append(prev, subjectId))

\* the messages onGenerateTrials makes of the warnings of the generated sets
NonFatalWarnings(generated) ==
    Concat([i \in 1..Len(generated) |->
        [j \in 1..Len(generated[i].value.meta.warnings) |->
            [subjectId |-> generated[i].key, warning |-> generated[i].value.meta.warnings[j]]]])

\* onGenerateTrials: the state it leaves
GenerateTrials(t, now) ==
    Bind([cleared \in {[t EXCEPT !.generationErrors = <<>>, !.generationWarnings = <<>>,
                                 !.trialSets = <<>>]} |->
        IF t.manifest = Null THEN cleared
        ELSE IF Len(t.selectedSubjectIds) = 0
        THEN [cleared EXCEPT !.generationErrors = << "select_at_least_one_subject" >>]
        ELSE IF Len(t.datasetFileErrors) > 0 \/ t.csvError # ""
        THEN [cleared EXCEPT !.generationErrors = << "fix_dataset_file_errors" >>]
        ELSE IF Len(subjectSelectionStrictErrors(t.manifest, t.selectedSubjectIds)) > 0
        THEN [cleared EXCEPT !.generationErrors =
                    subjectSelectionStrictErrors(t.manifest, t.selectedSubjectIds)]
        ELSE
        Bind([generated \in {generateMultiSubjectTrials(t.manifest, t.selectedSubjectIds,
                                                        baseConfig(t), seedPolicy(t), now)} |->
            IF generated.status # "ok"
            THEN [cleared EXCEPT !.generationErrors = << generated.error >>]
            ELSE [cleared EXCEPT !.trialSets = generated.value,
                                 !.generationWarnings = NonFatalWarnings(generated.value),
                                 !.step = 4]])])

\* the bundle onDownloadZip assembles of the state at hand
DownloadBundle(t, now) ==
    buildBundleInMemory(t.datasetId, t.datasetFolderLabel, t.manifest, t.trialSets,
                        seedPolicy(t), baseConfig(t), t.datasetFiles, now)

\* --------------------------------------------------------- idle components

PathIdle == path = <<>> /\ pathResult = "idle"
SeedIdle == seedArgs = [policy |-> buildSeedPolicyPerSubject(<<>>), subjectId |-> <<>>] /\ seedResult = Pending
CountsIdle ==
    /\ countsArgs = [total |-> 1, ff |-> 0, pf |-> 0,
                     available |-> [partner |-> 0, familiarNonPartner |-> 0, unfamiliar |-> 0]]
    /\ countsResult = NoCounts

GenIdle ==
    /\ genArgs = [manifest |-> [meta |-> [dataDirLabel |-> <<>>], identities |-> <<>>],
                  subjectId |-> <<>>, config |-> <<>>]
    /\ clock = 0
    /\ genRuns = <<>>

BundleIdle ==
    /\ buildArgs = <<>>
    /\ built = NotRun
    /\ selection = <<>>
    /\ parseResult = NotRun

MultiIdle == multiArgs = <<>> /\ multiResult = NotRun

ManifestIdle == manifestSource = <<>> /\ manifestResult = NotRun

PoolsIdle == poolArgs = <<>> /\ poolResult = NotRun

PairsIdle == pairMgr = <<>> /\ pairLog = <<>>
WizardIdle == tab = <<>> /\ pendingParses = <<>> /\ generatedWith = <<>> /\ downloaded = <<>> /\ edits = 0

RngIdle == rngSeed = <<>> /\ rngGens = <<>>

pathVars == <<path, pathResult>>
wizardVars == <<tab, pendingParses, generatedWith, downloaded, edits>>
pairsVars == <<pairMgr, pairLog>>
poolsVars == <<poolArgs, poolResult>>
manifestVars == <<manifestSource, manifestResult>>
rngVars == <<rngSeed, rngGens>>
multiVars == <<multiArgs, multiResult>>
bundleVars == <<buildArgs, built, selection, parseResult>>
genVars == <<genArgs, clock, genRuns>>
seedVars == <<seedArgs, seedResult>>
countsVars == <<countsArgs, countsResult>>

\* ------------------------------------------- specification: path safety

InitPath ==
    /\ path \in PathInputs
    /\ pathResult = "pending"
    /\ SeedIdle /\ CountsIdle /\ GenIdle /\ BundleIdle /\ MultiIdle /\ RngIdle /\ ManifestIdle /\ PoolsIdle /\ PairsIdle /\ WizardIdle

CallAssertSafeInternalPath ==
    /\ pathResult = "pending"
    /\ pathResult' = assertSafeInternalPath(path)
    /\ UNCHANGED <<path, seedVars, countsVars, genVars, bundleVars, multiVars, rngVars, manifestVars, poolsVars, pairsVars, wizardVars>>

NextPath == CallAssertSafeInternalPath

SpecPath == InitPath /\ [][NextPath]_vars

\* ------------------------------------------- specification: seed policy

InitSeed ==
    /\ seedArgs \in [policy : SeedPolicies, subjectId : SeedSubjects]
    /\ seedResult = Pending
    /\ PathIdle /\ CountsIdle /\ GenIdle /\ BundleIdle /\ MultiIdle /\ RngIdle /\ ManifestIdle /\ PoolsIdle /\ PairsIdle /\ WizardIdle

CallDeriveSubjectSeed ==
    /\ seedResult.status = "pending"
    /\ seedResult' = deriveSubjectSeed(seedArgs.policy, seedArgs.subjectId)
    /\ UNCHANGED <<seedArgs, pathVars, countsVars, genVars, bundleVars, multiVars, rngVars, manifestVars, poolsVars, pairsVars, wizardVars>>

NextSeed == CallDeriveSubjectSeed

SpecSeed == InitSeed /\ [][NextSeed]_vars

\* ---------------------------------------- specification: count allocator

InitCounts ==
    /\ countsArgs \in CountsInputs
    /\ countsResult = NoCounts
    /\ PathIdle /\ SeedIdle /\ GenIdle /\ BundleIdle /\ MultiIdle /\ RngIdle /\ ManifestIdle /\ PoolsIdle /\ PairsIdle /\ WizardIdle

CallComputeCounts ==
    /\ countsResult = NoCounts
    /\ countsResult' = computeCounts(countsArgs.total, countsArgs.ff, countsArgs.pf,
                                     countsArgs.available)
    /\ UNCHANGED <<countsArgs, pathVars, seedVars, genVars, bundleVars, multiVars, rngVars, manifestVars, poolsVars, pairsVars, wizardVars>>

NextCounts == CallComputeCounts

SpecCounts == InitCounts /\ [][NextCounts]_vars

\* ------------------------------------------ specification: trial generator

InitGen ==
    /\ genArgs \in GenInputs
    /\ clock = 0
    /\ genRuns = <<>>
    /\ PathIdle /\ SeedIdle /\ CountsIdle /\ BundleIdle /\ MultiIdle /\ RngIdle /\ ManifestIdle /\ PoolsIdle /\ PairsIdle /\ WizardIdle

\* one call of generateTrials on the held arguments; the caller keeps what
\* the calls returned
CallGenerateTrials ==
    /\ Len(genRuns) < 2
    /\ genRuns' = Append(genRuns,
                         generateTrials(genArgs.manifest, genArgs.subjectId,
                                        genArgs.config, clock))
    /\ UNCHANGED <<genArgs, clock, pathVars, seedVars, countsVars, bundleVars, multiVars, rngVars, manifestVars, poolsVars, pairsVars, wizardVars>>

\* time passes
Tick ==
    /\ clock < MaxClock
    /\ clock' = clock + 1
    /\ UNCHANGED <<genArgs, genRuns, pathVars, seedVars, countsVars, bundleVars, multiVars, rngVars, manifestVars, poolsVars, pairsVars, wizardVars>>

NextGen == CallGenerateTrials \/ Tick

SpecGen == InitGen /\ [][NextGen]_vars

\* ----------------------------------------- specification: bundle pipeline

InitBundle ==
    /\ buildArgs \in BundleInputs
    /\ built = NotRun
    /\ selection = <<>>
    /\ parseResult = NotRun
    /\ PathIdle /\ SeedIdle /\ CountsIdle /\ GenIdle /\ MultiIdle /\ RngIdle /\ ManifestIdle /\ PoolsIdle /\ PairsIdle /\ WizardIdle

CallBuildBundleInMemory ==
    /\ built.status = "pending"
    /\ built' = buildBundleInMemory(buildArgs.datasetId, buildArgs.sourceDataDirLabel,
                                    buildArgs.manifest, buildArgs.trialSets,
                                    buildArgs.seedPolicy, buildArgs.generatorConfig,
                                    buildArgs.datasetFiles, clock)
    /\ UNCHANGED <<buildArgs, selection, parseResult, pathVars, seedVars, countsVars, genVars, multiVars, rngVars, manifestVars, poolsVars, pairsVars, wizardVars>>

\* the bundle is written as an archive, the archive is unpacked into a
\* folder, and the folder is selected
LayOutBundle ==
    /\ built.status = "ok"
    /\ selection = <<>>
    /\ \E zip \in {buildBundleZipBlob(built)} :
          /\ zip.status = "ok"
          /\ selection' = DirectorySelection(zip.zip, RootLabel)
    /\ UNCHANGED <<buildArgs, built, parseResult, pathVars, seedVars, countsVars, genVars, multiVars, rngVars, manifestVars, poolsVars, pairsVars, wizardVars>>

CallParseBundle ==
    /\ selection # <<>>
    /\ parseResult.status = "pending"
    /\ parseResult' = parseBundleFromDirectorySelection(selection)
    /\ UNCHANGED <<buildArgs, built, selection, pathVars, seedVars, countsVars, genVars, multiVars, rngVars, manifestVars, poolsVars, pairsVars, wizardVars>>

NextBundle == CallBuildBundleInMemory \/ LayOutBundle \/ CallParseBundle

SpecBundle == InitBundle /\ [][NextBundle]_vars

\* ------------------------------------ specification: parser on a folder

InitParse ==
    /\ selection \in ParseSelections
    /\ buildArgs = <<>>
    /\ built = NotRun
    /\ parseResult = NotRun
    /\ PathIdle /\ SeedIdle /\ CountsIdle /\ GenIdle /\ MultiIdle /\ RngIdle /\ ManifestIdle /\ PoolsIdle /\ PairsIdle /\ WizardIdle

NextParse == CallParseBundle

SpecParse == InitParse /\ [][NextParse]_vars

\* ------------------------------------- specification: multi-subject run

InitMulti ==
    /\ multiArgs \in MultiInputs
    /\ multiResult = NotRun
    /\ PathIdle /\ SeedIdle /\ CountsIdle /\ GenIdle /\ BundleIdle /\ RngIdle /\ ManifestIdle /\ PoolsIdle /\ PairsIdle /\ WizardIdle

CallGenerateMultiSubjectTrials ==
    /\ multiResult = NotRun
    /\ multiResult' = generateMultiSubjectTrials(multiArgs.manifest,
                                                 multiArgs.selectedSubjectIds,
                                                 multiArgs.baseConfig,
                                                 multiArgs.seedPolicy, clock)
    /\ UNCHANGED <<multiArgs, pathVars, seedVars, countsVars, genVars, bundleVars, rngVars, manifestVars, poolsVars, pairsVars, wizardVars>>

NextMulti == CallGenerateMultiSubjectTrials

SpecMulti == InitMulti /\ [][NextMulti]_vars

\* ------------------------------------------------ specification: PRNG

RngSeeds == SeqsUpTo({"s", "1", ":", "A"}, MaxSeedLen)

\* two generators are made from one seed string; each keeps its own t
InitRng ==
    /\ rngSeed \in RngSeeds
    /\ rngGens = [g \in 1..2 |-> [t |-> createRng(rngSeed), values |-> <<>>]]
    /\ PathIdle /\ SeedIdle /\ CountsIdle /\ GenIdle /\ BundleIdle /\ MultiIdle /\ ManifestIdle /\ PoolsIdle /\ PairsIdle /\ WizardIdle

\* one call of next() on generator g
CallNext(g) ==
    /\ Len(rngGens[g].values) < MaxCalls
    /\ \E r \in {RngNext(rngGens[g].t)} :
          rngGens' = [rngGens EXCEPT ![g] = [t |-> r.rng,
                                             values |-> Append(rngGens[g].values, r.value)]]
    /\ UNCHANGED <<rngSeed, pathVars, seedVars, countsVars, genVars, bundleVars, multiVars, manifestVars, poolsVars, pairsVars, wizardVars>>

NextRng == \E g \in 1..2 : CallNext(g)

SpecRng == InitRng /\ [][NextRng]_vars

\* -------------------------------------- specification: dataset manifest

InitManifest ==
    /\ manifestSource \in ManifestSources
    /\ manifestResult = NotRun
    /\ PathIdle /\ SeedIdle /\ CountsIdle /\ GenIdle /\ BundleIdle /\ MultiIdle /\ RngIdle /\ PoolsIdle /\ PairsIdle /\ WizardIdle

\* a dataset folder is selected and its manifest built
CallBuildDatasetManifest ==
    /\ manifestResult = NotRun
    /\ manifestSource.kind = "folder"
    /\ manifestResult' = [status |-> "ok",
                          manifest |-> buildDatasetManifest(manifestSource.options).manifest]
    /\ UNCHANGED <<manifestSource, pathVars, seedVars, countsVars, genVars, bundleVars, multiVars, rngVars, poolsVars, pairsVars, wizardVars>>

\* a prepared JSON file is loaded
CallParsePreparedManifestFromJsonFile ==
    /\ manifestResult = NotRun
    /\ manifestSource.kind = "json"
    /\ manifestResult' = [status |-> "ok",
                          manifest |-> parsePreparedManifestFromJsonFile(manifestSource.obj)]
    /\ UNCHANGED <<manifestSource, pathVars, seedVars, countsVars, genVars, bundleVars, multiVars, rngVars, poolsVars, pairsVars, wizardVars>>

\* a prepared CSV file is loaded
CallParsePreparedManifestFromCsvFile ==
    /\ manifestResult = NotRun
    /\ manifestSource.kind = "csv"
    /\ manifestResult' = [status |-> "ok",
                          manifest |-> parsePreparedManifestFromCsvFile(manifestSource.rows)]
    /\ UNCHANGED <<manifestSource, pathVars, seedVars, countsVars, genVars, bundleVars, multiVars, rngVars, poolsVars, pairsVars, wizardVars>>

NextManifest ==
    \/ CallBuildDatasetManifest
    \/ CallParsePreparedManifestFromJsonFile
    \/ CallParsePreparedManifestFromCsvFile

SpecManifest == InitManifest /\ [][NextManifest]_vars

\* ------------------------------------------------------- pools on their own

\* manifests for the pool builder: A and B are partners, C and D have no
\* partner; sexes come in both letter cases and absent, familiarity as
\* familiar, unfamiliar, capitalised, another word and absent
CapFamiliar == <<"F">> \o Tail(FAMILIAR)
OtherFamiliarity == <<"n", "e", "w">>

PoolManifests ==
    {[meta |-> [dataDirLabel |-> <<"d">>],
      identities |->
         << IdentityOf(<<"A">>, <<"B">>, sa, fa, <<1, 1>>),
            IdentityOf(<<"B">>, <<"A">>, sb, fb, <<1, 1>>),
            IdentityOf(<<"C">>, <<>>, sc, fc, <<1, 1>>),
            IdentityOf(<<"D">>, <<>>, sd, fd, <<1, 1>>) >>] :
        sa \in {<<"M">>, <<"F">>}, fa \in {<<>>, FAMILIAR},
        sb \in {<<"F">>, <<"f">>, <<>>}, fb \in {FAMILIAR, UNFAMILIAR},
        sc \in {<<"M">>, <<"F">>, <<"f">>},
        fc \in {FAMILIAR, UNFAMILIAR, CapFamiliar, OtherFamiliarity, <<>>},
        sd \in {<<"F">>, <<"m">>}, fd \in {FAMILIAR, UNFAMILIAR}}

PoolSubjects == {<<"A">>, <<"B">>, <<"C">>, <<"x">>}

PoolInputs == [manifest : PoolManifests, subjectId : PoolSubjects]

InitPools ==
    /\ poolArgs \in PoolInputs
    /\ poolResult = NotRun
    /\ PathIdle /\ SeedIdle /\ CountsIdle /\ GenIdle /\ BundleIdle /\ MultiIdle /\ RngIdle /\ ManifestIdle /\ PairsIdle /\ WizardIdle

\* the pools of one subject are built
CallBuildPools ==
    /\ poolResult = NotRun
    /\ poolResult' = buildPools(poolArgs.manifest, poolArgs.subjectId)
    /\ UNCHANGED <<poolArgs, pathVars, seedVars, countsVars, genVars, bundleVars, multiVars, rngVars, manifestVars, pairsVars, wizardVars>>

NextPools == CallBuildPools

SpecPools == InitPools /\ [][NextPools]_vars

\* ------------------------------------- specification: one pair allocator

\* the orders a shuffle can leave the indices 1..n in
OrdersOf(n) == {f \in [1..n -> 1..n] : \A i, j \in 1..n : f[i] = f[j] => i = j}

\* the managers the constructor can make of a images and i audios
PairManagers ==
    {[audioOrder |-> ao, imageOrder |-> io, aPtr |-> 0, iPtr |-> 0, used |-> {},
      images |-> ExemplarsOf(<<"A">>, Len(io), JPG),
      audios |-> ExemplarsOf(<<"A">>, Len(ao), WAV),
      avoidRepeat |-> ar] :
        ao \in UNION {OrdersOf(n) : n \in 0..MaxOrder},
        io \in UNION {OrdersOf(n) : n \in 0..MaxOrder},
        ar \in BOOLEAN}

\* calls enough to use every pair and start over
MaxPairCalls == MaxOrder * MaxOrder + 2

InitPairs ==
    /\ pairMgr \in PairManagers
    /\ pairLog = <<>>
    /\ PathIdle /\ SeedIdle /\ CountsIdle /\ GenIdle /\ BundleIdle /\ MultiIdle /\ RngIdle /\ ManifestIdle /\ PoolsIdle /\ WizardIdle

\* one call of nextPair; a throw leaves the manager as it was
CallNextPair ==
    /\ Len(pairLog) < MaxPairCalls
    /\ \E r \in {nextPair(pairMgr)} :
        /\ pairMgr' = IF r.status = "ok" THEN r.mgr ELSE pairMgr
        /\ pairLog' = Append(pairLog,
                             IF r.status = "ok"
                             THEN [status |-> "ok", audioIndex |-> r.audioIndex,
                                   imageIndex |-> r.imageIndex,
                                   audioPath |-> r.audioPath, imagePath |-> r.imagePath,
                                   usedBefore |-> pairMgr.used, usedAfter |-> r.mgr.used]
                             ELSE r)
    /\ UNCHANGED <<pathVars, seedVars, countsVars, genVars, bundleVars, multiVars, rngVars, manifestVars, poolsVars, wizardVars>>

NextPairs == CallNextPair

SpecPairs == InitPairs /\ [][NextPairs]_vars

\* ------------------------------------------------------------ build wizard

\* what Papa.parse reads of a file that is not a table
NoTable == [errors |-> <<>>, data |-> <<>>, fields |-> {}]

WizardFile(dir, name, content) ==
    [webkitRelativePath |-> dir \o <<"/">> \o name, name |-> name, content |-> content]

WizardRow(id, partnerId, sex, focal) ==
    [ID |-> id, partner_ID |-> partnerId, partnerId |-> <<>>, partner |-> <<>>,
     sex |-> sex, familiarity |-> FAMILIAR, focal |-> focal]

TableOf(rows) == [errors |-> <<>>, data |-> rows, fields |-> DOMAIN rows[1]]

\* the pairs A, B and C, D, each the partner of the other, A focal or no
\* one focal
PairsTable(focalA) ==
    TableOf(<< WizardRow(<<"A">>, <<"B">>, <<"M">>, focalA),
               WizardRow(<<"B">>, <<"A">>, <<"F">>, <<>>),
               WizardRow(<<"C">>, <<"D">>, <<"F">>, <<>>),
               WizardRow(<<"D">>, <<"C">>, <<"M">>, <<>>) >>)

MediaOf(dir, id) ==
    << WizardFile(dir, id \o <<"1">> \o JpgExt, NoTable),
       WizardFile(dir, id \o <<"1">> \o WavExt, NoTable) >>

\* the selections of the folder input: nothing, a dataset with the media of
\* the four, one where only A and B have media, one whose data_info.csv lies
\* a level down, and one whose data_info.csv does not parse
WizardSelections ==
    { <<>>,
      << WizardFile(<<"d">>, DataInfoCsv, PairsTable(<<"1">>)) >>
            \o MediaOf(<<"d">>, <<"A">>) \o MediaOf(<<"d">>, <<"B">>)
            \o MediaOf(<<"d">>, <<"C">>) \o MediaOf(<<"d">>, <<"D">>),
      << WizardFile(<<"e">>, DataInfoCsv, PairsTable(<<>>)) >>
            \o MediaOf(<<"e">>, <<"A">>) \o MediaOf(<<"e">>, <<"B">>),
      << WizardFile(<<"n">>, <<"A", "1">> \o JpgExt, NoTable),
         WizardFile(<<"n", "/", "x">>, DataInfoCsv, PairsTable(<<>>)) >>,
      << WizardFile(<<"r">>, DataInfoCsv, [errors |-> << "bad_quotes" >>, data |-> <<>>, fields |-> {}]) >> }

\* what the inputs of step 3 are set to
TotalTrialsTyped == {0, 2}
FractionsTyped == {0, FracDen + 1}
SeedsTyped == { <<>>, <<"s">> }
OverridesTyped == { <<"1">> }

\* BundleTab as React mounts it.  The total the wizard starts with is 40; the
\* model starts it at the largest total it schedules.
InitTab ==
    [mode |-> "build", step |-> 1,
     datasetFiles |-> <<>>, datasetFolderLabel |-> NoFolderSelected,
     csvError |-> "", csvRows |-> Null,
     manifest |-> Null, datasetWarnings |-> <<>>, datasetFileErrors |-> <<>>,
     selectedSubjectIds |-> <<>>, datasetId |-> <<>>,
     totalTrials |-> MaxTrials,
     familiarFraction |-> FracDen \div 2,
     partnerFractionWithinFamiliar |-> FracDen \div 2,
     balanceSides |-> TRUE, avoidRepeatPairings |-> TRUE,
     globalSeed |-> <<"4", "2">>, perSubjectOverrides |-> <<>>,
     trialSets |-> <<>>, generationErrors |-> <<>>, generationWarnings |-> <<>>]

InitWizard ==
    /\ tab = InitTab
    /\ pendingParses = <<>>
    /\ generatedWith = Null
    /\ downloaded = Null
    /\ edits = 0
    /\ PathIdle /\ SeedIdle /\ CountsIdle /\ GenIdle /\ BundleIdle /\ MultiIdle /\ RngIdle /\ ManifestIdle /\ PoolsIdle /\ PairsIdle

\* a handler that leaves the state t: the arguments the trial sets at hand
\* were generated with stay on record while there are trial sets
Render(t) ==
    /\ tab' = t
    /\ generatedWith' = IF Len(t.trialSets) = 0 THEN Null ELSE generatedWith
    /\ downloaded' = Null
    /\ UNCHANGED <<pathVars, seedVars, countsVars, genVars, bundleVars, multiVars, rngVars, manifestVars, poolsVars, pairsVars>>

\* the folder input of step 1: the handler runs to its await or to its return
onDatasetFolderChange ==
    /\ tab.mode = "build" /\ tab.step = 1
    /\ \E filesList \in WizardSelections :
       \E started \in {FolderChangeStart(tab, filesList)} :
        /\ Len(pendingParses) + Len(started.suspended) <= MaxPending
        /\ pendingParses' = pendingParses \o started.suspended
        /\ Render(started.tab)
    /\ UNCHANGED edits

\* the promise of one suspended call settles and the call runs to its end
ParseSettles ==
    /\ \E i \in 1..Len(pendingParses) :
        /\ pendingParses' = SubSeq(pendingParses, 1, i - 1)
                                \o SubSeq(pendingParses, i + 1, Len(pendingParses))
        /\ Render(FolderChangeResume(tab, pendingParses[i]))
    /\ UNCHANGED edits

onSwitchMode ==
    /\ \E nextMode \in {"build", "visualize"} \ {tab.mode} :
        Render(resetBuildState([tab EXCEPT !.mode = nextMode]))
    /\ UNCHANGED <<pendingParses, edits>>

\* a step of the header, enabled by canGoToStep unless it is the active one
ClickStep ==
    /\ \E target \in (1..5) \ {tab.step} :
        /\ canGoToStep(tab, target)
        /\ Render([tab EXCEPT !.step = target])
    /\ UNCHANGED <<pendingParses, edits>>

\* the checkbox of a subject in the table of step 2
onToggleSubject ==
    /\ tab.mode = "build" /\ tab.step = 2 /\ tab.manifest # Null
    /\ \E subjectId \in Range(Ids(tab.manifest.identities)) :
        Render([tab EXCEPT !.trialSets = <<>>, !.generationErrors = <<>>,
                           !.generationWarnings = <<>>,
                           !.selectedSubjectIds = ToggleSubject(tab.selectedSubjectIds, subjectId)])
    /\ UNCHANGED <<pendingParses, edits>>

ContinueToTuning ==
    /\ tab.mode = "build" /\ tab.step = 2 /\ tab.manifest # Null
    /\ Len(tab.selectedSubjectIds) > 0 /\ Len(tab.datasetFileErrors) = 0 /\ tab.csvError = ""
    /\ Render([tab EXCEPT !.step = 3])
    /\ UNCHANGED <<pendingParses, edits>>

BackToSubjects ==
    /\ tab.mode = "build" /\ tab.step = 3
    /\ Render([tab EXCEPT !.step = 2])
    /\ UNCHANGED <<pendingParses, edits>>

\* the inputs of step 3 are there to edit
CanEdit == tab.mode = "build" /\ tab.step = 3 /\ edits < MaxEdits

\* an input is changed to something else than it shows
Edited(t) ==
    /\ t # tab
    /\ edits' = edits + 1
    /\ Render(t)

EditTotalTrials ==
    /\ CanEdit
    /\ \E typed \in TotalTrialsTyped :
        Edited([tab EXCEPT !.totalTrials = IF typed > 1 THEN typed ELSE 1])
    /\ UNCHANGED pendingParses

EditFamiliarFraction ==
    /\ CanEdit
    /\ \E v \in FractionsTyped :
        Edited(IF v >= 0 /\ v <= FracDen THEN [tab EXCEPT !.familiarFraction = v] ELSE tab)
    /\ UNCHANGED pendingParses

EditPartnerFraction ==
    /\ CanEdit
    /\ \E v \in FractionsTyped :
        Edited(IF v >= 0 /\ v <= FracDen
               THEN [tab EXCEPT !.partnerFractionWithinFamiliar = v] ELSE tab)
    /\ UNCHANGED pendingParses

EditGlobalSeed ==
    /\ CanEdit
    /\ \E typed \in SeedsTyped : Edited([tab EXCEPT !.globalSeed = typed])
    /\ UNCHANGED pendingParses

EditBalanceSides ==
    /\ CanEdit
    /\ \E checked \in BOOLEAN : Edited([tab EXCEPT !.balanceSides = checked])
    /\ UNCHANGED pendingParses

EditAvoidRepeatPairings ==
    /\ CanEdit
    /\ \E checked \in BOOLEAN : Edited([tab EXCEPT !.avoidRepeatPairings = checked])
    /\ UNCHANGED pendingParses

EditSeedOverride ==
    /\ CanEdit
    /\ \E sid \in Range(tab.selectedSubjectIds), v \in OverridesTyped :
        Edited([tab EXCEPT !.perSubjectOverrides =
                [k \in DOMAIN tab.perSubjectOverrides \cup {sid} |->
                    IF k = sid THEN v ELSE tab.perSubjectOverrides[k]]])
    /\ UNCHANGED pendingParses

\* the button of step 3
onGenerateTrials ==
    /\ tab.mode = "build" /\ tab.step = 3
    /\ \E t \in {GenerateTrials(tab, clock)} :
        /\ tab' = t
        /\ generatedWith' = IF Len(t.trialSets) = 0 THEN Null
                            ELSE [seedPolicy |-> seedPolicy(tab),
                                  baseConfig |-> baseConfig(tab),
                                  selectedSubjectIds |-> tab.selectedSubjectIds,
                                  manifest |-> tab.manifest]
    /\ downloaded' = Null
    /\ UNCHANGED <<pendingParses, edits, pathVars, seedVars, countsVars, genVars, bundleVars, multiVars, rngVars, manifestVars, poolsVars, pairsVars>>

BackToTuning ==
    /\ tab.mode = "build" /\ tab.step = 4
    /\ Render([tab EXCEPT !.step = 3])
    /\ UNCHANGED <<pendingParses, edits>>

ContinueToDownload ==
    /\ tab.mode = "build" /\ tab.step = 4
    /\ Len(tab.generationErrors) = 0
    /\ Render([tab EXCEPT !.step = 5])
    /\ UNCHANGED <<pendingParses, edits>>

BackToExplorer ==
    /\ tab.mode = "build" /\ tab.step = 5
    /\ Render([tab EXCEPT !.step = 4])
    /\ UNCHANGED <<pendingParses, edits>>

\* the button of step 5: the bundle goes to downloadBundleZip, or the throw
\* of buildBundleInMemory is shown
onDownloadZip ==
    /\ tab.mode = "build" /\ tab.step = 5
    /\ tab.manifest # Null /\ Len(tab.generationErrors) = 0 /\ Len(tab.trialSets) > 0
    /\ \E bundle \in {DownloadBundle(tab, clock)} :
        /\ tab' = [tab EXCEPT !.generationErrors =
                        IF bundle.status = "ok" THEN <<>> ELSE << bundle.error >>]
        /\ downloaded' = IF bundle.status = "ok" THEN bundle ELSE Null
    /\ UNCHANGED <<generatedWith, pendingParses, edits, pathVars, seedVars, countsVars, genVars, bundleVars, multiVars, rngVars, manifestVars, poolsVars, pairsVars>>

NextWizard ==
    \/ onDatasetFolderChange
    \/ ParseSettles
    \/ onSwitchMode
    \/ onToggleSubject
    \/ ContinueToTuning
    \/ BackToSubjects
    \/ EditTotalTrials
    \/ EditFamiliarFraction
    \/ EditPartnerFraction
    \/ EditGlobalSeed
    \/ EditBalanceSides
    \/ EditAvoidRepeatPairings
    \/ EditSeedOverride
    \/ onGenerateTrials
    \/ BackToTuning
    \/ ContinueToDownload
    \/ BackToExplorer
    \/ onDownloadZip
    \/ ClickStep

SpecWizard == InitWizard /\ [][NextWizard]_vars

\* ------------------------------------------------------------------ claims

Sum3(c) == c.nPartner + c.nFamiliarNonPartner + c.nUnfamiliar

AllUnavailable(a) == a.partner <= 0 /\ a.familiarNonPartner <= 0 /\ a.unfamiliar <= 0

\* C1: computeCounts conserves the total: whenever at least one category is
\* available the three counts add up to total, and the sum is below total
\* only when all three categories are unavailable.
C1_Conservation ==
    countsResult # NoCounts =>
        /\ ~AllUnavailable(countsArgs.available) => Sum3(countsResult) = countsArgs.total
        /\ Sum3(countsResult) < countsArgs.total => AllUnavailable(countsArgs.available)

\* The paths the claim lists, stated on the characters of the path and not
\* on its split: empty, leading '/' or '\', a backslash anywhere, an empty
\* segment, a segment '.' or '..'.
HasEmptySegment(p) ==
    \E i \in 1..Len(p) : p[i] = "/" /\ (i = 1 \/ i = Len(p) \/ p[i + 1] = "/")

HasDotSegment(p) ==
    \E i \in 1..Len(p) : \E j \in i..Len(p) :
        /\ i = 1 \/ p[i - 1] = "/"
        /\ j = Len(p) \/ p[j + 1] = "/"
        /\ \A k \in i..j : p[k] = "."
        /\ j - i <= 1

ListedUnsafe(p) ==
    \/ p = <<>>
    \/ p # <<>> /\ p[1] \in {"/", "\\"}
    \/ \E i \in 1..Len(p) : p[i] = "\\"
    \/ HasEmptySegment(p)
    \/ HasDotSegment(p)

\* C5: assertSafeInternalPath fails exactly for the listed paths and accepts
\* every other path; it accepts media/images/A1.jpg and rejects ../x, /x,
\* a\b and the empty string.
C5_PathSafety ==
    pathResult \notin {"pending", "idle"} =>
        /\ (pathResult # "ok") <=> ListedUnsafe(path)
        /\ path = ExampleSafePath => pathResult = "ok"
        /\ path \in ExampleUnsafePaths => pathResult # "ok"

C5_Witness ==
    /\ path = <<"a", "/", ".", ".">>
    /\ pathResult = "traversal"

IsBlank(s) == \A i \in 1..Len(s) : s[i] \in WhiteSpace

\* v is s without its leading and trailing whitespace
IsTrimmed(v, s) ==
    \E i \in 1..Len(s) : \E j \in i..Len(s) :
        /\ v = SubSeq(s, i, j)
        /\ s[i] \notin WhiteSpace /\ s[j] \notin WhiteSpace
        /\ \A k \in 1..Len(s) : (k < i \/ k > j) => s[k] \in WhiteSpace

Derived(g, sid) == g \o <<":", ":">> \o sid

HasOverride(pol, sid) ==
    sid \in DOMAIN pol.perSubjectOverrides /\ pol.perSubjectOverrides[sid] # <<>>

\* C9 as stated: under a global policy the result is the override itself when
\* the override is non-empty, otherwise globalSeed::subjectId; it fails when
\* there is no override and the global seed is empty or blank.
C9_AsStated ==
    LET pol == seedArgs.policy
        sid == seedArgs.subjectId
    IN  (seedResult.status # "pending" /\ pol.strategy = "global") =>
            IF HasOverride(pol, sid)
            THEN seedResult.status = "ok" /\ seedResult.value = pol.perSubjectOverrides[sid]
            ELSE IF IsBlank(pol.globalSeed)
                 THEN seedResult.status = "error"
                 ELSE seedResult.status = "ok" /\ seedResult.value = Derived(pol.globalSeed, sid)

\* C9 amended: under a global policy the result is the override with its
\* leading and trailing whitespace removed when the override has a
\* non-whitespace character; otherwise (override absent, empty or blank) it
\* is globalSeed::subjectId with globalSeed as given, and the call fails when
\* the global seed is empty or blank.
C9_GlobalSeed ==
    LET pol == seedArgs.policy
        sid == seedArgs.subjectId
    IN  (seedResult.status # "pending" /\ pol.strategy = "global") =>
            IF HasOverride(pol, sid) /\ ~IsBlank(pol.perSubjectOverrides[sid])
            THEN /\ seedResult.status = "ok"
                 /\ IsTrimmed(seedResult.value, pol.perSubjectOverrides[sid])
            ELSE IF IsBlank(pol.globalSeed)
                 THEN seedResult.status = "error" /\ seedResult.error = "global_seed_required"
                 ELSE seedResult.status = "ok" /\ seedResult.value = Derived(pol.globalSeed, sid)

C9_Witness ==
    /\ seedArgs.policy.strategy = "global"
    /\ HasOverride(seedArgs.policy, seedArgs.subjectId)
    /\ seedArgs.policy.perSubjectOverrides[seedArgs.subjectId] = <<" ", "s">>
    /\ seedResult.status = "ok"
    /\ seedResult.value = <<"s">>

\* C10: under a per_subject policy the result is the explicit seed recorded
\* for the subject; a subject without one fails with an error naming it, and
\* no derived or global seed is ever returned instead.
C10_PerSubjectSeed ==
    LET pol == seedArgs.policy
        sid == seedArgs.subjectId
    IN  (seedResult.status # "pending" /\ pol.strategy = "per_subject") =>
            IF sid \in DOMAIN pol.perSubjectSeeds /\ pol.perSubjectSeeds[sid] # <<>>
            THEN seedResult.status = "ok" /\ seedResult.value = pol.perSubjectSeeds[sid]
            ELSE /\ seedResult.status = "error"
                 /\ seedResult.error = "missing_per_subject_seed"
                 /\ seedResult.names = sid

C10_Witness ==
    /\ seedArgs.policy.strategy = "per_subject"
    /\ seedArgs.subjectId = <<"B">>
    /\ <<"A">> \in DOMAIN seedArgs.policy.perSubjectSeeds
    /\ <<"B">> \notin DOMAIN seedArgs.policy.perSubjectSeeds
    /\ seedResult.status = "error"
    /\ seedResult.names = <<"B">>

OkRuns == {i \in 1..Len(genRuns) : genRuns[i].status = "ok"}

TrialsOf(i) == genRuns[i].trials

ImageOn(t, side) == IF side = "left" THEN t.leftImage ELSE t.rightImage

\* C2: in every trial of every returned TrialSet, a partner call has
\* correctSide = partnerSide, and any other call has on correctSide the image
\* of the calling identity.
C2_CorrectSide ==
    \A i \in OkRuns : \A k \in 1..Len(TrialsOf(i)) :
        LET t == TrialsOf(i)[k]
        IN  /\ t.isPartnerCall => t.correctSide = t.partnerSide
            /\ ~t.isPartnerCall => ImageOn(t, t.correctSide).identityId = t.callIdentityId

C2_Witness ==
    \E i \in OkRuns :
        /\ \E k \in 1..Len(TrialsOf(i)) :
              /\ ~TrialsOf(i)[k].isPartnerCall
              /\ TrialsOf(i)[k].partnerSide = "left"
              /\ TrialsOf(i)[k].correctSide = "right"
        /\ \E k \in 1..Len(TrialsOf(i)) :
              /\ TrialsOf(i)[k].isPartnerCall
              /\ TrialsOf(i)[k].correctSide = "right"

CountSide(trials, side) == Cardinality({k \in 1..Len(trials) : trials[k].partnerSide = side})

\* C3: with balanceSides set, of the N trials returned exactly floor(N/2)
\* have partnerSide left and the other N - floor(N/2) have partnerSide right.
C3_SideBalance ==
    \A i \in OkRuns :
        genArgs.config.balanceSides =>
            /\ CountSide(TrialsOf(i), "left") = Len(TrialsOf(i)) \div 2
            /\ CountSide(TrialsOf(i), "right") = Len(TrialsOf(i)) - (Len(TrialsOf(i)) \div 2)

C3_Witness ==
    \E i \in OkRuns :
        /\ genArgs.config.balanceSides
        /\ Len(TrialsOf(i)) = 3
        /\ CountSide(TrialsOf(i), "left") = 1
        /\ CountSide(TrialsOf(i), "right") = 2

WithoutGeneratedAt(r) ==
    IF r.status = "ok" THEN [r EXCEPT !.meta.generatedAt = 0] ELSE r

Built == built.status # "pending"

Parsed == parseResult.status # "pending"

AsFunction(m) == [k \in MapKeys(m) |-> MapGet(m, k)]

\* equal once the paths of both are made canonical
SameTrialSets(a, b) ==
    /\ MapKeys(a) = MapKeys(b)
    /\ \A k \in MapKeys(a) :
          normalizeTrialSetToBundlePaths(MapGet(a, k))
              = normalizeTrialSetToBundlePaths(MapGet(b, k))

RoundTrips ==
    /\ parseResult.status = "ok"
    /\ parseResult.manifest = normalizeManifestToBundlePaths(buildArgs.manifest)
    /\ SameTrialSets(parseResult.trialSets, buildArgs.trialSets)

\* C6: round trip: whenever buildBundleInMemory succeeded, parsing the file
\* tree the bundle was laid out in succeeds and returns a manifest and trial
\* sets equal to the originals up to canonical path normalization.
C6_RoundTrip == Parsed => RoundTrips

\* the inputs a bundle is meant to be built from: identifier and label not
\* blank, every identity with an id, every trial set under its own subject
\* and with canonical paths
WellFormedBuildArgs ==
    /\ Trim(buildArgs.datasetId) # <<>>
    /\ Trim(buildArgs.sourceDataDirLabel) # <<>>
    /\ \A i \in 1..Len(buildArgs.manifest.identities) :
          Trim(buildArgs.manifest.identities[i].id) # <<>>
    /\ \A i \in 1..Len(buildArgs.trialSets) :
          /\ buildArgs.trialSets[i].value.meta.subjectId = buildArgs.trialSets[i].key
          /\ normalizeTrialSetToBundlePaths(buildArgs.trialSets[i].value)
                = [status |-> "ok", value |-> buildArgs.trialSets[i].value]

\* on such inputs the round trip holds
RoundTripOfWellFormed == (Parsed /\ WellFormedBuildArgs) => RoundTrips

RoundTripOfWellFormedSeen == Parsed /\ WellFormedBuildArgs /\ Len(buildArgs.trialSets) = 2

\* what the build refers to: the exemplars of the manifest under their
\* canonical paths, and the three paths of every trial
ReferencedMedia ==
    UNION { { [path |-> normalizeBundleImagePath(e.imageExemplars[j].fileName),
               fileName |-> e.imageExemplars[j].fileName] : j \in 1..Len(e.imageExemplars) }
            \cup
            { [path |-> normalizeBundleAudioPath(e.audioExemplars[j].fileName),
               fileName |-> e.audioExemplars[j].fileName] : j \in 1..Len(e.audioExemplars) }
            : e \in Range(buildArgs.manifest.identities) }
    \cup
    UNION { { [path |-> p, fileName |-> fileNameFromPath(p)] :
                p \in {t.audio.path, t.leftImage.path, t.rightImage.path} }
            : t \in UNION { Range(buildArgs.trialSets[i].value.trials) :
                              i \in 1..Len(buildArgs.trialSets) } }

FilesNamed(name) == {f \in Range(buildArgs.datasetFiles) : f.name = name}

\* C7: strict media resolution: the build fails when the file name of a
\* manifest exemplar or of a trial's audio, left-image or right-image path
\* matches no file or several files of the raw collection; when it succeeds
\* every referenced path is a key of mediaByInternalPath and maps to the one
\* file of that name.
C7_StrictMedia ==
    Built =>
        /\ (\E ref \in ReferencedMedia : Cardinality(FilesNamed(ref.fileName)) # 1)
              => built.status = "error"
        /\ built.status = "ok" =>
              \A ref \in ReferencedMedia :
                  /\ MapHas(built.mediaByInternalPath, ref.path)
                  /\ FilesNamed(ref.fileName) = {MapGet(built.mediaByInternalPath, ref.path)}

\* a build that succeeded on two trials although the collection holds a name twice
C7_Witness ==
    /\ built.status = "ok"
    /\ Len(built.mediaByInternalPath) >= 4
    /\ \E f \in Range(buildArgs.datasetFiles) : Cardinality(FilesNamed(f.name)) = 2

EmptySubjects == {i \in 1..Len(buildArgs.trialSets) : Len(buildArgs.trialSets[i].value.trials) = 0}

\* C8 as stated: a subject with an empty trial list makes the build fail
\* with an error naming that subject.
C8_AsStated ==
    Built =>
        \A i \in EmptySubjects :
            /\ built.status = "error"
            /\ built.error = "zero_trials"
            /\ built.about = buildArgs.trialSets[i].key

FirstEmptySubject == CHOOSE i \in EmptySubjects : \A j \in EmptySubjects : i <= j

RefFails(ref) ==
    \/ assertSafeInternalPath(ref.path) # "ok"
    \/ Cardinality(FilesNamed(ref.fileName)) # 1

\* what is checked before the empty list is met: the exemplars of the
\* manifest and the trials of the subjects before it
CheckedBeforeFirstEmpty ==
    {ref \in ReferencedMedia :
        \/ \E e \in Range(buildArgs.manifest.identities) :
              \/ \E j \in 1..Len(e.imageExemplars) : ref.fileName = e.imageExemplars[j].fileName
                                                      /\ ref.path = normalizeBundleImagePath(ref.fileName)
              \/ \E j \in 1..Len(e.audioExemplars) : ref.fileName = e.audioExemplars[j].fileName
                                                      /\ ref.path = normalizeBundleAudioPath(ref.fileName)
        \/ \E i \in 1..(FirstEmptySubject - 1) :
              \E t \in Range(buildArgs.trialSets[i].value.trials) :
                  ref.path \in {t.audio.path, t.leftImage.path, t.rightImage.path}}

\* C8: a subject with an empty trial list is fatal: the build returns no
\* bundle; its error names the first such subject, unless a reference
\* checked before that subject already failed, and then it is that failure.
C8_ZeroTrialsFatal ==
    (Built /\ EmptySubjects # {}) =>
        /\ built.status = "error"
        /\ IF \E ref \in CheckedBeforeFirstEmpty : RefFails(ref)
           THEN built.error # "zero_trials"
           ELSE /\ built.error = "zero_trials"
                /\ built.about = buildArgs.trialSets[FirstEmptySubject].key

\* the second of two subjects has no trials, the first has, and the build
\* failed on the second
C8_Witness ==
    /\ Built
    /\ EmptySubjects = {2}
    /\ built.status = "error"
    /\ built.error = "zero_trials"
    /\ built.about = buildArgs.trialSets[2].key

\* ------------------------------------------------- C11: failure isolation

\* what generation for one requested subject alone comes to
AloneRun(subjectId) ==
    generateMultiSubjectTrials(multiArgs.manifest, <<subjectId>>, multiArgs.baseConfig,
                               multiArgs.seedPolicy, clock)

\* C11: in a multi-subject run a fatal error of one requested subject aborts
\* only that subject: every other requested subject whose own generation
\* succeeds still has its trial set in what generateMultiSubjectTrials
\* returns, the same as when it is generated alone.
C11_FailureIsolation ==
    multiResult # NotRun =>
        \A i \in 1..Len(multiArgs.selectedSubjectIds) :
            Bind([alone \in {AloneRun(multiArgs.selectedSubjectIds[i])} |->
                alone.status = "ok" =>
                    /\ multiResult.status = "ok"
                    /\ MapHas(multiResult.value, multiArgs.selectedSubjectIds[i])
                    /\ MapGet(multiResult.value, multiArgs.selectedSubjectIds[i])
                         = MapGet(alone.value, multiArgs.selectedSubjectIds[i])])

\* a run in which every requested subject generates alone returns all of them
C11_AllSucceed ==
    (multiResult # NotRun
     /\ \A i \in 1..Len(multiArgs.selectedSubjectIds) :
            AloneRun(multiArgs.selectedSubjectIds[i]).status = "ok")
        => /\ multiResult.status = "ok"
           /\ \A i \in 1..Len(multiArgs.selectedSubjectIds) :
                 MapHas(multiResult.value, multiArgs.selectedSubjectIds[i])

\* ------------------------------------ C12: media presence after parsing

\* the internal paths of the selected files, and those under the media folders
SelectedPaths ==
    {getInternalPath(selection[i], inferRootLabel(selection)) : i \in 1..Len(selection)}

SelectedMediaPaths ==
    {p \in SelectedPaths : StartsWith(p, MediaImagesDir) \/ StartsWith(p, MediaAudioDir)}

\* the folder of p when p is trial_sets/<folder>/trials.json
FolderOf(p) == SubSeq(p, Len(TrialSetsDir) + 1, Len(p) - Len(TrialsJson) - 1)

\* p is trial_sets/<subjectId>/trials.json
IsSubjectTrialsJson(p) ==
    /\ Len(p) > Len(TrialSetsDir) + Len(TrialsJson) + 1
    /\ "/" \notin Range(FolderOf(p))
    /\ p = TrialSetsDir \o FolderOf(p) \o Slash \o TrialsJson

StimulusPaths(t) == {t.audio.path, t.leftImage.path, t.rightImage.path}

\* the pairs of subject folder and stimulus path that the trials.json files
\* of the selection hold
SelectedTrialRefs ==
    UNION { UNION { {<<FolderOf(getInternalPath(selection[i], inferRootLabel(selection))), p>> :
                        p \in StimulusPaths(selection[i].content.value.trials[k])} :
                    k \in 1..Len(selection[i].content.value.trials) } :
            i \in {j \in 1..Len(selection) :
                        /\ selection[j].content.kind = "json"
                        /\ IsSubjectTrialsJson(getInternalPath(selection[j],
                                                              inferRootLabel(selection)))} }

MissingRefs == {r \in SelectedTrialRefs : r[2] \notin SelectedMediaPaths}

ParsedPathsPresent ==
    parseResult.status = "ok" =>
        /\ \A i \in 1..Len(parseResult.trialSets) :
             \A k \in 1..Len(parseResult.trialSets[i].value.trials) :
               \A p \in StimulusPaths(parseResult.trialSets[i].value.trials[k]) :
                    /\ assertSafeInternalPath(p) = "ok"
                    /\ MapHas(parseResult.mediaByInternalPath, p)
        /\ \A i \in 1..Len(parseResult.mediaByInternalPath) :
             \/ StartsWith(parseResult.mediaByInternalPath[i].key, MediaImagesDir)
             \/ StartsWith(parseResult.mediaByInternalPath[i].key, MediaAudioDir)

\* the folder passes every check that comes before validateMediaPresence
PassesStructureChecks ==
    /\ {DatasetMetaJson, ManifestJson} \subseteq SelectedPaths
    /\ \A r \in SelectedTrialRefs : assertSafeInternalPath(r[2]) = "ok"
    /\ \A i \in 1..Len(selection) :
          IsTrialsJsonPath(getInternalPath(selection[i], inferRootLabel(selection)))
            => /\ selection[i].content.kind = "json"
               /\ selection[i].content.value.meta.subjectId
                    = Split(getInternalPath(selection[i], inferRootLabel(selection)), "/")[2]
    /\ \A i \in 1..Len(selection) :
          /\ getInternalPath(selection[i], inferRootLabel(selection)) = DatasetMetaJson
                => /\ selection[i].content.kind = "json"
                   /\ validateDatasetMetaShape(selection[i].content.value).status = "ok"
          /\ getInternalPath(selection[i], inferRootLabel(selection)) = ManifestJson
                => /\ selection[i].content.kind = "json"
                   /\ validateManifestShape(selection[i].content.value).status = "ok"

C12_MissingSeen ==
    /\ parseResult.status = "error"
    /\ parseResult.error = "bundle_media_missing"
    /\ PassesStructureChecks

\* ---------------------------------------------- C13: parser structure

\* the trials.json of the selection in the folder of one subject
TrialsJsonOfSubject(subjectId) ==
    {i \in 1..Len(selection) :
        getInternalPath(selection[i], inferRootLabel(selection))
            = TrialSetsDir \o subjectId \o Slash \o TrialsJson}

\* C13: parseBundleFromDirectorySelection succeeds only if dataset_meta.json
\* and manifest.json are at the canonical root and some
\* trial_sets/<subjectId>/trials.json exists; every key of the returned
\* trialSets is the folder of a trials.json of the selection and equals the
\* meta.subjectId recorded in that file.
C13_ParserStructure ==
    parseResult.status = "ok" =>
        /\ DatasetMetaJson \in SelectedPaths
        /\ ManifestJson \in SelectedPaths
        /\ \E p \in SelectedPaths : IsSubjectTrialsJson(p)
        /\ Len(parseResult.trialSets) > 0
        /\ \A i \in 1..Len(parseResult.trialSets) :
              /\ parseResult.trialSets[i].key = parseResult.trialSets[i].value.meta.subjectId
              /\ \E j \in TrialsJsonOfSubject(parseResult.trialSets[i].key) :
                    selection[j].content.value = parseResult.trialSets[i].value

\* a folder with the trial sets of two subjects is parsed
C13_Witness ==
    /\ parseResult.status = "ok"
    /\ Len(parseResult.trialSets) = 2

\* each structure check refuses some folder
C13_RefusalsSeen(kind) == parseResult.status = "error" /\ parseResult.error = kind

\* ------------------------------------------- C14, C19: count allocator

OnlyFamiliarNonPartnerUnavailable(a) ==
    a.partner > 0 /\ a.familiarNonPartner <= 0 /\ a.unfamiliar > 0

\* C14: when only the familiar-non-partner category is unavailable,
\* computeCounts emits one warning, for that category, and returns
\* nPartner = round(total * familiarFraction), nFamiliarNonPartner = 0 and
\* nUnfamiliar = total - round(total * familiarFraction).
C14_Degradation ==
    (countsResult # NoCounts /\ OnlyFamiliarNonPartnerUnavailable(countsArgs.available)) =>
        /\ countsResult.nPartner = Round(countsArgs.total * countsArgs.ff, FracDen)
        /\ countsResult.nFamiliarNonPartner = 0
        /\ countsResult.nUnfamiliar
             = countsArgs.total - Round(countsArgs.total * countsArgs.ff, FracDen)
        /\ countsResult.warnings = <<"no_familiar_non_partner">>

\* a call in which a familiar-non-partner count was due and went to the partner
C14_Witness ==
    /\ countsResult # NoCounts
    /\ OnlyFamiliarNonPartnerUnavailable(countsArgs.available)
    /\ countsArgs.pf < FracDen
    /\ countsResult.nPartner
         > Round(Round(countsArgs.total * countsArgs.ff, FracDen) * countsArgs.pf, FracDen)
    /\ countsResult.nUnfamiliar > 0

ExpectedWarnings(a) ==
    (IF a.partner <= 0 THEN <<"no_partner">> ELSE <<>>)
        \o (IF a.familiarNonPartner <= 0 THEN <<"no_familiar_non_partner">> ELSE <<>>)
        \o (IF a.unfamiliar <= 0 THEN <<"no_unfamiliar">> ELSE <<>>)

\* C19: computeCounts returns for every input; each category whose
\* availability is zero has count zero, the three counts are non-negative
\* integers, and the warnings are one for each unavailable category, in the
\* order partner, familiar-non-partner, unfamiliar.
C19_NeverUnavailable ==
    countsResult # NoCounts =>
        /\ countsArgs.available.partner <= 0 => countsResult.nPartner = 0
        /\ countsArgs.available.familiarNonPartner <= 0 => countsResult.nFamiliarNonPartner = 0
        /\ countsArgs.available.unfamiliar <= 0 => countsResult.nUnfamiliar = 0
        /\ countsResult.nPartner \in Nat
        /\ countsResult.nFamiliarNonPartner \in Nat
        /\ countsResult.nUnfamiliar \in Nat
        /\ countsResult.warnings = ExpectedWarnings(countsArgs.available)

\* a call in which the folds left a count on an unavailable category: partner
\* and familiar-non-partner both unavailable and familiar trials due
C19_Witness ==
    /\ countsResult # NoCounts
    /\ countsArgs.available.partner <= 0
    /\ countsArgs.available.familiarNonPartner <= 0
    /\ countsArgs.available.unfamiliar > 0
    /\ Round(countsArgs.total * countsArgs.ff, FracDen) > 0
    /\ Len(countsResult.warnings) = 2

\* ------------------------------------------------------ C15: PRNG contract

Min(a, b) == IF a < b THEN a ELSE b

\* C15: every value next() returns is an integer of 0..2^32-1 over 2^32, so
\* it lies in [0,1), and two generators made from the same seed string return
\* the same values, call by call, however the calls interleave.
C15_PrngContract ==
    /\ \A g \in DOMAIN rngGens : \A i \in 1..Len(rngGens[g].values) :
          /\ rngGens[g].values[i][1] \in 0..(Half - 1)
          /\ rngGens[g].values[i][2] \in 0..(Half - 1)
    /\ rngGens # <<>> =>
          \A i \in 1..Min(Len(rngGens[1].values), Len(rngGens[2].values)) :
              rngGens[1].values[i] = rngGens[2].values[i]

\* both generators were called MaxCalls times, one ahead of the other at
\* some point, and the stream is not constant
C15_Witness ==
    /\ rngGens # <<>>
    /\ Len(rngGens[1].values) = MaxCalls
    /\ Len(rngGens[2].values) = MaxCalls
    /\ rngGens[1].values[1] # rngGens[1].values[2]
    /\ rngGens[1].values[MaxCalls][1] >= Pow2(15)

\* ------------------------------------------------- C16: index uniqueness

DistinctIndices(exemplars) ==
    \A j, k \in 1..Len(exemplars) : j # k => exemplars[j].index # exemplars[k].index

SortedByIndex(exemplars) ==
    \A j, k \in 1..Len(exemplars) : j < k => exemplars[j].index <= exemplars[k].index

\* C16: in every DatasetManifest the program produces, built from a folder or
\* loaded from a prepared JSON or CSV file, the image exemplar indices of
\* every identity are pairwise distinct, its audio exemplar indices are
\* pairwise distinct, and each list is sorted by index.
C16_IndexUniqueness ==
    manifestResult # NotRun =>
        \A i \in 1..Len(manifestResult.manifest.identities) :
            /\ DistinctIndices(manifestResult.manifest.identities[i].imageExemplars)
            /\ DistinctIndices(manifestResult.manifest.identities[i].audioExemplars)
            /\ SortedByIndex(manifestResult.manifest.identities[i].imageExemplars)
            /\ SortedByIndex(manifestResult.manifest.identities[i].audioExemplars)

\* what holds: every list of every manifest is sorted by index
C16_Sorted ==
    manifestResult # NotRun =>
        \A i \in 1..Len(manifestResult.manifest.identities) :
            /\ SortedByIndex(manifestResult.manifest.identities[i].imageExemplars)
            /\ SortedByIndex(manifestResult.manifest.identities[i].audioExemplars)

\* what holds: the indices of a manifest built from a folder are distinct
C16_FolderDistinct ==
    (manifestResult # NotRun /\ manifestSource.kind = "folder") =>
        \A i \in 1..Len(manifestResult.manifest.identities) :
            /\ DistinctIndices(manifestResult.manifest.identities[i].imageExemplars)
            /\ DistinctIndices(manifestResult.manifest.identities[i].audioExemplars)

\* a folder in which two files of one identity carry the same index
C16_FolderDuplicateSeen ==
    /\ manifestResult # NotRun
    /\ manifestSource.kind = "folder"
    /\ \E i \in 1..Len(manifestResult.manifest.identities) :
          Len(manifestResult.manifest.identities[i].imageExemplars) = 2
    /\ Len(manifestSource.options.files) = 3
    /\ \A k \in 1..3 : manifestSource.options.files[k].name[1] = "A"
    /\ \A k \in 1..3 : parseBaseAndExt(manifestSource.options.files[k].name).extLower
                          \in {<<"j", "p", "g">>, <<"j", "p", "e", "g">>}
    /\ \A k \in 1..3 : MatchBase(parseBaseAndExt(manifestSource.options.files[k].name).base).matched

\* ------------------------------------------- C17: schedule composition

\* the counts computeCounts returns in generateTrials on the held arguments
CountsOfRun ==
    Bind([pools \in {buildPools(genArgs.manifest, genArgs.subjectId)} |->
        LET NotPartner(e) == e.id # pools.partner.id
        IN  computeCounts(genArgs.config.totalTrials, genArgs.config.familiarFraction,
                          genArgs.config.partnerFractionWithinFamiliar,
                          [familiarNonPartner |->
                                Len(SelectSeq(SelectSeq(pools.familiar, NotPartner), HasMedia)),
                           unfamiliar |-> Len(SelectSeq(pools.unfamiliar, HasMedia)),
                           partner |-> IF HasMedia(pools.partner) THEN 1 ELSE 0])])

PartnerCalls(trials) == {k \in 1..Len(trials) : trials[k].isPartnerCall}

FamiliarNonPartnerCalls(trials) ==
    {k \in 1..Len(trials) : ~trials[k].isPartnerCall /\ trials[k].callCategory = "familiar"}

UnfamiliarCalls(trials) == {k \in 1..Len(trials) : trials[k].callCategory = "unfamiliar"}

ComposedAsCounted(trials, counts) ==
    /\ Cardinality(PartnerCalls(trials)) = counts.nPartner
    /\ Cardinality(FamiliarNonPartnerCalls(trials)) = counts.nFamiliarNonPartner
    /\ Cardinality(UnfamiliarCalls(trials)) = counts.nUnfamiliar

IsScenario ==
    /\ genArgs \in ScenarioInputs
    /\ 2 * genArgs.config.familiarFraction = FracDen
    /\ 2 * genArgs.config.partnerFractionWithinFamiliar = FracDen

ScenarioComposition ==
    IsScenario =>
        \A i \in OkRuns :
            /\ Len(TrialsOf(i)) = 10
            /\ Cardinality(PartnerCalls(TrialsOf(i))) = 3
            /\ Cardinality(FamiliarNonPartnerCalls(TrialsOf(i))) = 2
            /\ Cardinality(UnfamiliarCalls(TrialsOf(i))) = 5

\* C17: whenever generateTrials succeeds the trials hold exactly nPartner
\* partner calls, nFamiliarNonPartner familiar calls that are not partner
\* calls and nUnfamiliar unfamiliar calls, the counts being those of
\* computeCounts; in the scenario these are 3, 2 and 5.
C17_ScheduleComposition ==
    /\ OkRuns # {} => \A i \in OkRuns : ComposedAsCounted(TrialsOf(i), CountsOfRun)
    /\ ScenarioComposition

\* where it holds: the partner is not in the unfamiliar pool
PartnerListedUnfamiliar ==
    \E k \in 1..Len(genArgs.manifest.identities) :
        /\ genArgs.manifest.identities[k].id = <<"B">>
        /\ lowerStr(genArgs.manifest.identities[k].properties.familiarity) = UNFAMILIAR

C17_WhenPartnerNotUnfamiliar ==
    (OkRuns # {} /\ ~PartnerListedUnfamiliar) =>
        \A i \in OkRuns : ComposedAsCounted(TrialsOf(i), CountsOfRun)

C17_ScenarioSeen == IsScenario /\ OkRuns # {}

\* --------------------------------------- C18: assembler and trial paths

\* p is dir followed by a file name
CanonicalUnder(p, dir) ==
    /\ StartsWith(p, dir)
    /\ Len(p) > Len(dir)
    /\ "/" \notin Range(SubSeq(p, Len(dir) + 1, Len(p)))

\* C18: in every bundle buildBundleInMemory returns, every trial's audio path
\* is media/audio/{fileName}, its left and right image paths are
\* media/images/{fileName}, and every key of mediaByInternalPath has one of
\* these two forms.
C18_AssemblerNormalizes ==
    built.status = "ok" =>
        /\ \A i \in 1..Len(built.trialSets) :
             \A k \in 1..Len(built.trialSets[i].value.trials) :
                /\ CanonicalUnder(built.trialSets[i].value.trials[k].audio.path, MediaAudioDir)
                /\ CanonicalUnder(built.trialSets[i].value.trials[k].leftImage.path,
                                  MediaImagesDir)
                /\ CanonicalUnder(built.trialSets[i].value.trials[k].rightImage.path,
                                  MediaImagesDir)
        /\ \A i \in 1..Len(built.mediaByInternalPath) :
             \/ CanonicalUnder(built.mediaByInternalPath[i].key, MediaImagesDir)
             \/ CanonicalUnder(built.mediaByInternalPath[i].key, MediaAudioDir)

\* what holds: the trial sets of the bundle are the ones handed in, and the
\* exemplar paths of its manifest are canonical
C18_TrialSetsAsGiven ==
    built.status = "ok" =>
        /\ built.trialSets = buildArgs.trialSets
        /\ \A i \in 1..Len(built.manifest.identities) :
             /\ \A k \in 1..Len(built.manifest.identities[i].imageExemplars) :
                  CanonicalUnder(built.manifest.identities[i].imageExemplars[k].relativePath,
                                 MediaImagesDir)
             /\ \A k \in 1..Len(built.manifest.identities[i].audioExemplars) :
                  CanonicalUnder(built.manifest.identities[i].audioExemplars[k].relativePath,
                                 MediaAudioDir)

\* the identities of the manifest other than the subject whose sex is the
\* partner's and whose familiarity is this one, letter case aside
ClassifiedAs(familiarity) ==
    {e \in Range(poolArgs.manifest.identities) :
        /\ e.id # poolArgs.subjectId
        /\ lowerStr(e.properties.sex) = lowerStr(poolResult.partner.properties.sex)
        /\ lowerStr(e.properties.familiarity) = familiarity}

\* C20: whenever buildPools succeeds, the familiar pool is exactly the
\* identities other than the subject that have the partner's sex and
\* familiarity familiar, the unfamiliar pool exactly those with familiarity
\* unfamiliar; the pools are disjoint, never hold the subject, and never hold
\* an identity of another sex or of any other familiarity.
C20_PoolClassification ==
    poolResult.status = "ok" =>
        /\ poolResult.partner.id = poolResult.subject.properties.partner_ID
        /\ Range(poolResult.familiar) = ClassifiedAs(FAMILIAR)
        /\ Range(poolResult.unfamiliar) = ClassifiedAs(UNFAMILIAR)
        /\ Range(poolResult.familiar) \cap Range(poolResult.unfamiliar) = {}
        /\ \A e \in Range(poolResult.familiar) \cup Range(poolResult.unfamiliar) :
              /\ e.id # poolArgs.subjectId
              /\ e \in Range(poolArgs.manifest.identities)
              /\ lowerStr(e.properties.sex) = lowerStr(poolResult.partner.properties.sex)
              /\ lowerStr(e.properties.familiarity) \in {FAMILIAR, UNFAMILIAR}

\* the pools were built with both of them filled, the subject itself of the
\* partner's sex and listed familiar, and another identity left out of both
C20_Witness ==
    /\ poolResult.status = "ok"
    /\ poolResult.familiar # <<>>
    /\ poolResult.unfamiliar # <<>>
    /\ lowerStr(poolResult.subject.properties.sex) = poolResult.partnerSex
    /\ lowerStr(poolResult.subject.properties.familiarity) = FAMILIAR
    /\ \E e \in Range(poolArgs.manifest.identities) :
          /\ e.id # poolArgs.subjectId
          /\ e \notin Range(poolResult.familiar) \cup Range(poolResult.unfamiliar)

\* the subject the arguments of generateTrials name, and its partner, as the
\* manifest lists them (0 when it does not)
SubjectAt == identityById(genArgs.manifest, genArgs.subjectId)

PartnerIdOfSubject ==
    Bind([p \in {genArgs.manifest.identities[SubjectAt].properties} |->
        Trim(FirstTruthy(p.partner_ID, p.partnerId, p.partner))])

PartnerAt == identityById(genArgs.manifest, PartnerIdOfSubject)

\* which fatal precondition of generation the arguments miss, "" when none
MissedPrecondition ==
    IF SubjectAt = 0 THEN "subject_not_found"
    ELSE IF PartnerIdOfSubject = <<>> THEN "no_partner_id"
    ELSE IF PartnerAt = 0 THEN "partner_not_found"
    ELSE IF genArgs.manifest.identities[PartnerAt].properties.sex = <<>> THEN "partner_no_sex"
    ELSE IF genArgs.manifest.identities[PartnerAt].imageExemplars = <<>> THEN "partner_no_images"
    ELSE IF genArgs.manifest.identities[PartnerAt].audioExemplars = <<>> THEN "partner_no_audios"
    ELSE ""

\* C21: generateTrials fails, and returns no TrialSet or part of one, when the
\* subject is not in the manifest, the subject has no partner id under any of
\* partner_ID, partnerId, partner, the partner is not in the manifest, the
\* partner has no sex, or the partner has no image or no audio exemplar.
C21_FatalPreconditions ==
    MissedPrecondition # "" =>
        \A i \in 1..Len(genRuns) :
            /\ genRuns[i].status = "error"
            /\ genRuns[i].error = MissedPrecondition
            /\ DOMAIN genRuns[i] = {"status", "error"}

\* generation was called for a subject whose partner has images and no audio
C21_Witness ==
    /\ MissedPrecondition = "partner_no_audios"
    /\ Len(genRuns) > 0

\* generation was called for a subject whose partner is not listed
C21_PartnerNotListedSeen ==
    /\ Len(genRuns) > 0
    /\ MissedPrecondition = "partner_not_found"

PairAt(k) == <<pairLog[k].audioIndex, pairLog[k].imageIndex>>

\* C22: with avoidRepeat set and non-empty lists, a call of nextPair returns a
\* pair that is in the used set only when the used set pairs the current audio
\* with every image, and it then clears the used set rather than fail; the
\* first A*I pairs are pairwise distinct, and the k-th call returns the audio
\* at position (k-1) mod A of the shuffled audio order.
C22_RepeatAvoidance ==
    (pairMgr.avoidRepeat /\ pairMgr.audioOrder # <<>> /\ pairMgr.imageOrder # <<>>) =>
        /\ \A k \in 1..Len(pairLog) :
            /\ pairLog[k].status = "ok"
            /\ pairLog[k].audioIndex = At(pairMgr.audioOrder, k - 1)
            /\ PairAt(k) \in pairLog[k].usedBefore =>
                  /\ \A i \in Range(pairMgr.imageOrder) :
                        <<pairLog[k].audioIndex, i>> \in pairLog[k].usedBefore
                  /\ pairLog[k].usedAfter = {PairAt(k)}
        /\ \A j, k \in 1..Len(pairLog) :
              (j < k /\ k <= Len(pairMgr.audioOrder) * Len(pairMgr.imageOrder)) =>
                  PairAt(j) # PairAt(k)

\* every pair of an allocator with several audios and several images has been
\* returned, and the call after that met a used set that held every image of
\* its audio and returned a pair again
C22_Witness ==
    /\ pairMgr.avoidRepeat
    /\ Len(pairMgr.audioOrder) > 1
    /\ Len(pairMgr.imageOrder) > 1
    /\ \E k \in 1..Len(pairLog) :
          /\ k > Len(pairMgr.audioOrder) * Len(pairMgr.imageOrder)
          /\ PairAt(k) \in pairLog[k].usedBefore

\* the exemplar indices of the images shown for identity x on the side that
\* is not the partner's, in trial order
OtherImagesOf(trials, x) ==
    LET Shows(t) == t.otherIdentityId = x
        shown == SelectSeq(trials, Shows)
    IN  [k \in 1..Len(shown) |->
            ImageOn(shown[k], IF shown[k].partnerSide = "left" THEN "right" ELSE "left").exemplarIndex]

\* the exemplar indices of the partner's images, in trial order
PartnerImagesOf(trials) ==
    [k \in 1..Len(trials) |-> ImageOn(trials[k], trials[k].partnerSide).exemplarIndex]

\* the image exemplar indices the manifest lists for identity x
ImageIndicesOf(x) ==
    Bind([at \in {identityById(genArgs.manifest, x)} |->
        IF at = 0 THEN {} ELSE Range(Indices(genArgs.manifest.identities[at].imageExemplars))])

TimesShown(s, i) == Cardinality({k \in 1..Len(s) : s[k] = i})

\* s walks one fixed cyclic order of the images: it repeats with their number
\* as period, any window of that length is pairwise distinct, and no image is
\* shown more than once more often than another
OneCyclicOrder(s, images) ==
    /\ Range(s) \subseteq images
    /\ \A k \in 1..Len(s) : k + Cardinality(images) <= Len(s) => s[k + Cardinality(images)] = s[k]
    /\ \A j, k \in 1..Len(s) : (j < k /\ k - j < Cardinality(images)) => s[j] # s[k]
    /\ \A a, b \in images : TimesShown(s, a) <= TimesShown(s, b) + 1

\* C23: within one run of generateTrials the images shown for an identity on
\* the side that is not the partner's follow one fixed cyclic order of its
\* images: any window of as many consecutive appearances as it has images is
\* pairwise distinct and the usage counts of any two of its images differ by
\* at most one; the same holds of the partner's images.
C23_AllocatorCaching ==
    \A i \in OkRuns :
        /\ OneCyclicOrder(PartnerImagesOf(TrialsOf(i)), ImageIndicesOf(genRuns[i].meta.partnerId))
        /\ \A x \in Range(Ids(genArgs.manifest.identities)) :
              OneCyclicOrder(OtherImagesOf(TrialsOf(i), x), ImageIndicesOf(x))

\* an identity with several images was shown on the other side more often
\* than it has images, in the company of another identity shown there too
C23_Witness ==
    \E i \in OkRuns :
        \E x, y \in Range(Ids(genArgs.manifest.identities)) :
            /\ x # y
            /\ Cardinality(ImageIndicesOf(x)) > 1
            /\ Len(OtherImagesOf(TrialsOf(i), x)) > Cardinality(ImageIndicesOf(x))
            /\ Len(OtherImagesOf(TrialsOf(i), y)) > 0

\* the identities of the manifest other than the subject and the partner that
\* have the partner's sex, are listed familiar or unfamiliar, and have an
\* image and an audio: the pool the other identity of a partner call is drawn from
OtherPoolOf(run) ==
    {e \in Range(genArgs.manifest.identities) :
        /\ e.id # genArgs.subjectId
        /\ e.id # run.meta.partnerId
        /\ lowerStr(e.properties.sex)
              = lowerStr(genArgs.manifest.identities[PartnerAt].properties.sex)
        /\ lowerStr(e.properties.familiarity) \in {FAMILIAR, UNFAMILIAR}
        /\ HasMedia(e)}

\* C24: in every generated trial otherIdentityId differs from partnerId; in a
\* partner call the other identity is in the familiar-with-media or the
\* unfamiliar-with-media pool, and a run that schedules a partner call fails
\* when that pool, the partner left out, is empty; in any other call
\* otherIdentityId is callIdentityId.
C24_OtherIdentity ==
    \A i \in OkRuns :
        \A k \in 1..Len(TrialsOf(i)) :
            /\ TrialsOf(i)[k].otherIdentityId # TrialsOf(i)[k].partnerId
            /\ TrialsOf(i)[k].isPartnerCall =>
                  /\ OtherPoolOf(genRuns[i]) # {}
                  /\ TrialsOf(i)[k].otherIdentityId \in {e.id : e \in OtherPoolOf(genRuns[i])}
            /\ ~TrialsOf(i)[k].isPartnerCall =>
                  TrialsOf(i)[k].otherIdentityId = TrialsOf(i)[k].callIdentityId

\* a run with a partner call whose other identity came from the pool and a
\* call of another identity
C24_Witness ==
    \E i \in OkRuns :
        \E j, k \in 1..Len(TrialsOf(i)) :
            /\ TrialsOf(i)[j].isPartnerCall
            /\ ~TrialsOf(i)[k].isPartnerCall
            /\ Cardinality(OtherPoolOf(genRuns[i])) > 1

\* a run refused because a partner call found no other identity
C24_RefusalSeen ==
    \E i \in 1..Len(genRuns) :
        /\ genRuns[i].status = "error"
        /\ genRuns[i].error = "no_other_identities"

OppositeSide(side) == IF side = "left" THEN "right" ELSE "left"

\* the stimulus names an exemplar the manifest lists for its identity in this
\* modality, by index and by path
ListedFor(stim, modality) ==
    \E e \in Range(genArgs.manifest.identities) :
        /\ e.id = stim.identityId
        /\ \E x \in Range(IF modality = "image" THEN e.imageExemplars ELSE e.audioExemplars) :
              /\ x.index = stim.exemplarIndex
              /\ x.relativePath = stim.path

\* C25: in every generated trial the image on partnerSide is the partner's,
\* the image on the other side is the other identity's, the audio is the
\* calling identity's, and each stimulus carries the index and the path of an
\* exemplar the manifest lists for that identity in that modality.
C25_ImagePlacement ==
    \A i \in OkRuns :
        \A k \in 1..Len(TrialsOf(i)) :
            /\ ImageOn(TrialsOf(i)[k], TrialsOf(i)[k].partnerSide).identityId = TrialsOf(i)[k].partnerId
            /\ ImageOn(TrialsOf(i)[k], OppositeSide(TrialsOf(i)[k].partnerSide)).identityId
                  = TrialsOf(i)[k].otherIdentityId
            /\ TrialsOf(i)[k].audio.identityId = TrialsOf(i)[k].callIdentityId
            /\ ListedFor(TrialsOf(i)[k].leftImage, "image")
            /\ ListedFor(TrialsOf(i)[k].rightImage, "image")
            /\ ListedFor(TrialsOf(i)[k].audio, "audio")

\* a run that placed the partner on the left in one trial and on the right in
\* another, with a partner call and a call of another identity
C25_Witness ==
    \E i \in OkRuns :
        \E j, k \in 1..Len(TrialsOf(i)) :
            /\ TrialsOf(i)[j].partnerSide = "left"
            /\ TrialsOf(i)[k].partnerSide = "right"
            /\ \E a, b \in 1..Len(TrialsOf(i)) :
                  TrialsOf(i)[a].isPartnerCall /\ ~TrialsOf(i)[b].isPartnerCall

Failed == [status |-> "error"]

Returned(trials) == [status |-> "ok", trials |-> trials]

\* the trials of generateTrials run alone for this subject with its derived
\* seed at this time, with bundle paths
TrialsAlone(subjectId, now) ==
    Bind([seed \in {deriveSubjectSeed(multiArgs.seedPolicy, subjectId)} |->
        IF seed.status # "ok" THEN Failed
        ELSE Bind([ts \in {generateTrials(multiArgs.manifest, subjectId,
                                          WithSeed(multiArgs.baseConfig, seed.value), now)} |->
                 IF ts.status # "ok" THEN Failed
                 ELSE Bind([norm \in {normalizeTrialSetToBundlePaths(ts)} |->
                          IF norm.status # "ok" THEN Failed ELSE Returned(norm.value.trials)])])])

\* the trials of this subject in a run over another list at another time
TrialsIn(list, subjectId, now) ==
    Bind([r \in {generateMultiSubjectTrials(multiArgs.manifest, list, multiArgs.baseConfig,
                                            multiArgs.seedPolicy, now)} |->
        IF r.status = "ok" THEN Returned(MapGet(r.value, subjectId).trials) ELSE Failed])

\* C26: the trials generateMultiSubjectTrials returns for a subject depend only
\* on the manifest, the base config, the seed policy and the subject: they are
\* the same whatever other subjects are requested and in whatever order, and
\* they are normalizeTrialSetToBundlePaths of generateTrials run alone for the
\* subject with seed deriveSubjectSeed(policy, subject).
C26_SubjectIndependence ==
    multiResult.status = "ok" =>
        \A i \in 1..Len(multiArgs.selectedSubjectIds) :
            Bind([s \in {multiArgs.selectedSubjectIds[i]} |->
            Bind([mine \in {Returned(MapGet(multiResult.value, s).trials)} |->
                /\ mine = TrialsAlone(s, MaxClock)
                /\ \A list \in MultiSubjectLists :
                      s \in Range(list) =>
                          Bind([theirs \in {TrialsIn(list, s, MaxClock)} |->
                              theirs # Failed => theirs = mine])])])

\* a run over two subjects returned trials for both, and the list in the
\* other order and the first subject alone return too
C26_Witness ==
    /\ multiResult.status = "ok"
    /\ Len(multiArgs.selectedSubjectIds) = 2
    /\ multiArgs.selectedSubjectIds[1] # multiArgs.selectedSubjectIds[2]
    /\ \A i \in 1..2 : Len(MapGet(multiResult.value, multiArgs.selectedSubjectIds[i]).trials) > 1
    /\ TrialsIn(<<multiArgs.selectedSubjectIds[2], multiArgs.selectedSubjectIds[1]>>,
                multiArgs.selectedSubjectIds[1], MaxClock) # Failed
    /\ TrialsIn(<<multiArgs.selectedSubjectIds[1]>>, multiArgs.selectedSubjectIds[1], MaxClock) # Failed

\* the hash of the seed advanced k times with wraparound
RECURSIVE Wrapped(_, _)
Wrapped(h, k) == IF k = 0 THEN h ELSE Add32(Wrapped(h, k - 1), Increment)

\* how many times 2^32 goes into hash + k * 0x6D2B79F5, by 16-bit halves
Overflows(h, k) ==
    (h[1] + k * Increment[1] + ((h[2] + k * Increment[2]) \div Half)) \div Half

CallsOf(g) == Len(rngGens[g].values)

\* C27: the state t of the generator starts as the FNV-1a hash of the seed and
\* after k calls of next() is (hash + k * 0x6D2B79F5) mod 2^32, an integer in
\* 0..2^32-1.
C27_State32Bit ==
    \A g \in DOMAIN rngGens :
        /\ rngGens[g].t = <<0>> \o Wrapped(hashStringToInt(rngSeed), CallsOf(g))
        /\ rngGens[g].t[1] = 0
        /\ rngGens[g].t[2] \in 0..(Half - 1)
        /\ rngGens[g].t[3] \in 0..(Half - 1)

\* what holds of t: it starts as the hash, each call adds 0x6D2B79F5 to it
\* without reduction, and its low 32 bits, which are all that next() reads,
\* are those of the 32-bit sum
C27_LowWordWraps ==
    \A g \in DOMAIN rngGens :
        /\ rngGens[g].t[1] = Overflows(hashStringToInt(rngSeed), CallsOf(g))
        /\ <<rngGens[g].t[2], rngGens[g].t[3]>>
              = Wrapped(hashStringToInt(rngSeed), CallsOf(g))

\* a generator was called and its t is 2^32 or more
C27_BeyondSeen ==
    \E g \in DOMAIN rngGens : CallsOf(g) > 0 /\ rngGens[g].t[1] > 0

\* C28: whenever generateTrials returns a TrialSet, trials.length and
\* meta.totalTrials equal config.totalTrials, and trialNumber runs from 1 to
\* totalTrials in list order.
C28_RequestedNumber ==
    \A i \in OkRuns :
        /\ Len(TrialsOf(i)) = genArgs.config.totalTrials
        /\ genRuns[i].meta.totalTrials = genArgs.config.totalTrials
        /\ \A k \in 1..Len(TrialsOf(i)) : TrialsOf(i)[k].trialNumber = k

\* what holds of the number of trials: meta.totalTrials is the length of the
\* list, trialNumber counts it from 1, and it is at most config.totalTrials
C28_NumberedAsListed ==
    \A i \in OkRuns :
        /\ genRuns[i].meta.totalTrials = Len(TrialsOf(i))
        /\ Len(TrialsOf(i)) <= genArgs.config.totalTrials
        /\ \A k \in 1..Len(TrialsOf(i)) : TrialsOf(i)[k].trialNumber = k

\* a TrialSet came back with fewer trials than requested
C28_ShortSeen ==
    \E i \in OkRuns : Len(TrialsOf(i)) < genArgs.config.totalTrials

\* the subjects the trial sets of a bundle are keyed by
BundleSubjects(bundle) == MapKeys(bundle.trialSets)

\* C29: bundle metadata matches the trial sets in the build wizard: every
\* bundle passed to downloadBundleZip carries in dataset_meta the seed_policy
\* and the generator_config its trial sets were generated with, and its
\* trial-set subjects are the currently selected subjects.
C29_MetadataMatchesTrialSets ==
    downloaded # Null =>
        /\ downloaded.datasetMeta.seed_policy = generatedWith.seedPolicy
        /\ downloaded.datasetMeta.generator_config = generatedWith.baseConfig
        /\ BundleSubjects(downloaded) = Range(tab.selectedSubjectIds)

\* a bundle went out whose metadata is that of its trial sets
C29_MatchingBundleSeen ==
    /\ downloaded # Null
    /\ downloaded.datasetMeta.seed_policy = generatedWith.seedPolicy
    /\ downloaded.datasetMeta.generator_config = generatedWith.baseConfig
    /\ BundleSubjects(downloaded) = Range(tab.selectedSubjectIds)

\* a bundle went out with a generator_config edited after generation
C29_StaleConfigSeen ==
    /\ downloaded # Null
    /\ downloaded.datasetMeta.generator_config # generatedWith.baseConfig

\* a bundle went out with a seed_policy edited after generation
C29_StaleSeedPolicySeen ==
    /\ downloaded # Null
    /\ downloaded.datasetMeta.seed_policy # generatedWith.seedPolicy

\* the manifest onDatasetFolderChange makes of a selection, null when it
\* makes none
ManifestBuiltFrom(files) ==
    IF Len(files) = 0 \/ FindDataInfoFile(files) = Null THEN Null
    ELSE IF parseDataInfoCsv(FindDataInfoFile(files)).status # "ok" THEN Null
    ELSE buildDatasetManifest(
            [csvRows |-> parseDataInfoCsv(FindDataInfoFile(files)).value.rows,
             dataDirLabel |-> inferFolderLabel(files),
             files |-> files,
             expectedImages |-> 1,
             expectedAudios |-> 1]).manifest

\* C30: folder selection is race-free in the build wizard: once all pending
\* parses have completed, the manifest held in state was built from the
\* files held in datasetFiles, those of the latest selection.
C30_FolderSelectionRaceFree ==
    (pendingParses = <<>> /\ tab.manifest # Null) =>
        tab.manifest = ManifestBuiltFrom(tab.datasetFiles)

\* a parse settled and left the manifest of the files at hand
C30_OwnManifestSeen ==
    /\ pendingParses = <<>>
    /\ tab.manifest # Null
    /\ tab.manifest = ManifestBuiltFrom(tab.datasetFiles)

\* no parse is pending and the manifest is that of files no longer held
C30_StaleManifestSeen ==
    /\ pendingParses = <<>>
    /\ tab.manifest # Null
    /\ tab.datasetFiles # <<>>
    /\ tab.manifest # ManifestBuiltFrom(tab.datasetFiles)

====
